---- MODULE Spec2Model ----
(***************************************************************************)
(* Model of DocxExportStrategy (the DOCX export pipeline of the article    *)
(* editor): content normalization, HTML-to-block conversion, serialization *)
(* with Packer.toBlob, the saveAs side effect and the ExportResult that    *)
(* export() resolves to.                                                   *)
(*                                                                         *)
(* Conventions.  An optional JavaScript value is a sequence of length 0    *)
(* (undefined / field absent) or 1 (the value).  Text is a sequence of     *)
(* one-character strings, so that trim() and concatenation are computed.   *)
(***************************************************************************)
EXTENDS Integers, Sequences, FiniteSets, TLC

VARIABLES
    pc,            \* per call: the statement of export() the call is at
    content,       \* per call: the content argument
    options,       \* per call: the options argument
    htmlContent,   \* per call: local htmlContent, once assigned
    articleTitle,  \* per call: local articleTitle
    tempEditor,    \* per call: the temporary Editor: none, alive, destroyed
    document,      \* per call: the Document createDocxFromHtml built
    docxBlob,      \* per call: local docxBlob, once Packer.toBlob resolved
    filename,      \* per call: local filename, once generateFilename returned
    promise,       \* per call: the promise export() returned
    downloads,     \* per call: the arguments of every saveAs invocation
    log,           \* per call: the steps run so far, each with its outcome
    thrown,        \* per call: the value the catch block caught, if any
    input,         \* the argument a formatter is applied to
    output,        \* what the formatter returned for input, once applied
    modal,         \* ProductCreationModal: its state, props and effects
    card,          \* ProductCardContent: product prop, editableProduct, flag
    autosave,      \* ProductCardContent.handleAutoSave: one call
    picker         \* SpecialCharacters: its state and the filtered list

\* The state of the export() calls and the state of a formatter application.
exportVars == <<pc, content, options, htmlContent, articleTitle, tempEditor,
                document, docxBlob, filename, promise, downloads, log, thrown>>
formatVars == <<input, output>>

\* The state of the components of the product pages.
uiVars == <<modal, card, autosave, picker>>

\* What a step of one component leaves alone.
notModal == <<exportVars, formatVars, card, autosave, picker>>
notCard == <<exportVars, formatVars, modal, autosave, picker>>
notAutosave == <<exportVars, formatVars, modal, card, picker>>
notPicker == <<exportVars, formatVars, modal, card, autosave>>

vars == <<exportVars, formatVars, uiVars>>

-----------------------------------------------------------------------------
(* Optional values and text                                                *)

None == <<>>
Some(v) == <<v>>
IsSome(o) == Len(o) = 1
Val(o) == o[1]

\* JavaScript truthiness of an optional text: undefined and '' are falsy.
Truthy(o) == IsSome(o) /\ Val(o) # <<>>

Calls == {1, 2}

-----------------------------------------------------------------------------
(* Inputs of export(content, options)                                      *)

\* Titles a caller can put in content.title: the empty string and a name.
Titles == {<<>>, <<"T">>}

\* HTML markup handed to the exporter, by name; ParseBody gives the body
\* DOMParser produces for each.
HtmlEmpty == "html:empty"
HtmlHello == "html:<p>Hello world</p>"
HtmlEditor == "html:from-live-editor"
HtmlJson == "html:from-json-document"
HtmlStrings == {HtmlEmpty, HtmlHello}

\* The editor field: absent, some object that is not an Editor, or a live
\* Editor instance.
EditorFields == {None, Some("notAnEditor"), Some("Editor")}

\* The html field: absent, the empty string, or markup.
HtmlFields == {None, Some(HtmlEmpty), Some(HtmlHello)}

JsonFields == {None, Some("jsonDoc")}

ObjectContents ==
    [kind : {"object"}, editor : EditorFields, html : HtmlFields,
     json : JsonFields, title : {None} \cup {Some(t) : t \in Titles},
     articleId : {None, Some("article-1")}]

NoFields == [editor |-> None, html |-> None, json |-> None, title |-> None,
             articleId |-> None]

\* A string, the number 42 and null/undefined carry no fields.
StringContents == {[kind |-> "string", str |-> h] @@ NoFields : h \in HtmlStrings}
NumberContent == [kind |-> "number"] @@ NoFields
NullContent == [kind |-> "null"] @@ NoFields

Contents == ObjectContents \cup StringContents \cup {NumberContent, NullContent}

OptionsSet == [includeMetadata : {None, Some(TRUE), Some(FALSE)},
               customFilename : {None, Some("custom.docx")}]

\* Values a collaborator can throw: an Error with a message, an Error with
\* an empty message, a non-Error object with a message field, a string.
Thrown == {[isError |-> TRUE, message |-> Some("boom")],
           [isError |-> TRUE, message |-> Some("")],
           [isError |-> FALSE, message |-> Some("boom")],
           [isError |-> FALSE, message |-> None]}

\* A JavaScript '' html string is the one named HtmlEmpty.
TruthyHtml(o) == IsSome(o) /\ Val(o) # HtmlEmpty

-----------------------------------------------------------------------------
(* The parsed document: DOM nodes                                          *)

Text(t) == [type |-> "text", tagName |-> "", text |-> t, kids |-> <<>>]
El(tag, kids) == [type |-> "el", tagName |-> tag, text |-> <<>>, kids |-> kids]

\* Element.tagName is upper case in an HTML document; toLowerCase().
ToLowerCase(tag) ==
    CASE tag = "H1" -> "h1" [] tag = "H2" -> "h2" [] tag = "H3" -> "h3"
      [] tag = "H4" -> "h4" [] tag = "H5" -> "h5" [] tag = "H6" -> "h6"
      [] tag = "P" -> "p" [] tag = "UL" -> "ul" [] tag = "OL" -> "ol"
      [] tag = "LI" -> "li" [] tag = "BLOCKQUOTE" -> "blockquote"
      [] tag = "PRE" -> "pre" [] tag = "TABLE" -> "table" [] tag = "HR" -> "hr"
      [] tag = "TR" -> "tr" [] tag = "TD" -> "td" [] tag = "TH" -> "th"
      [] tag = "STRONG" -> "strong" [] tag = "B" -> "b" [] tag = "EM" -> "em"
      [] tag = "I" -> "i" [] tag = "U" -> "u" [] tag = "S" -> "s"
      [] tag = "STRIKE" -> "strike" [] tag = "CODE" -> "code" [] tag = "A" -> "a"
      [] tag = "DIV" -> "div" [] tag = "SPAN" -> "span"
      [] tag = "THEAD" -> "thead" [] tag = "TBODY" -> "tbody"
      [] tag = "TFOOT" -> "tfoot"
      [] OTHER -> tag

IsSpace(ch) == ch \in {" ", "\n", "\t"}

RECURSIVE TrimStart(_)
TrimStart(s) ==
    IF s # <<>> /\ IsSpace(Head(s)) THEN TrimStart(Tail(s)) ELSE s

RECURSIVE TrimEnd(_)
TrimEnd(s) ==
    IF s # <<>> /\ IsSpace(s[Len(s)]) THEN TrimEnd(SubSeq(s, 1, Len(s) - 1)) ELSE s

\* String.prototype.trim
Trim(s) == TrimEnd(TrimStart(s))

\* Node.textContent: the text of a text node, the concatenated text of the
\* descendants of an element.
RECURSIVE TextContent(_)
RECURSIVE ConcatText(_)
ConcatText(nodes) ==
    IF nodes = <<>> THEN <<>>
    ELSE TextContent(Head(nodes)) \o ConcatText(Tail(nodes))
TextContent(node) ==
    IF node.type = "text" THEN node.text ELSE ConcatText(node.kids)

\* Element.children: the element children only.
Children(el) == SelectSeq(el.kids, LAMBDA n : n.type = "el")

Hello == <<"H", "i", " ", "w">>

\* DOMParser.parseFromString(htmlContent, 'text/html').body.children for
\* the markup the model feeds the exporter.
ParseBody(html) ==
    CASE html = HtmlEmpty -> <<>>
      [] html = HtmlHello -> <<El("P", <<Text(Hello)>>)>>
      [] html = HtmlEditor ->
            <<El("H1", <<Text(<<"A">>)>>),
              El("P", <<Text(<<"x", " ">>), El("STRONG", <<Text(<<"y">>)>>)>>)>>
      [] html = HtmlJson ->
            <<El("OL", <<El("LI", <<Text(<<"a">>)>>), El("LI", <<Text(<<"b">>)>>)>>),
              El("HR", <<>>)>>

-----------------------------------------------------------------------------
(* docx objects: TextRun, Paragraph, Table                                 *)

TextRun(text) ==
    [text |-> text, bold |-> None, italics |-> None, underline |-> None,
     strike |-> None, font |-> None, size |-> None, color |-> None,
     shading |-> None]

Paragraph(children) ==
    [type |-> "Paragraph", children |-> children, heading |-> None,
     alignment |-> None, before |-> None, after |-> None, indent |-> None,
     border |-> None, shading |-> None]

TitleRunSize == 32
MetadataRunSize == 18
FooterRunSize == 16
CodeRunSize == 18

\* createHeading's switch on the level.
HeadingFontSize(level) ==
    CASE level = "HEADING_1" -> 32
      [] level = "HEADING_2" -> 28
      [] level = "HEADING_3" -> 26
      [] level = "HEADING_4" -> 24
      [] level = "HEADING_5" -> 22
      [] level = "HEADING_6" -> 20
      [] level = "TITLE" -> 36
      [] OTHER -> 24

createHeading(text, level) ==
    [Paragraph(<<[TextRun(text) EXCEPT !.bold = Some(TRUE),
                                       !.size = Some(HeadingFontSize(level)),
                                       !.color = Some("2c3e50")]>>)
        EXCEPT !.heading = Some(level),
               !.before = Some(IF level = "HEADING_1" THEN 400 ELSE 300),
               !.after = Some(200)]

\* A text node's run carrying the trimmed text.
TextNodeRunTrimmed(node) ==
    IF Trim(node.text) # <<>> THEN <<TextRun(Trim(node.text))>> ELSE <<>>

\* The run processInlineElements pushes for a text node, as a sequence of
\* zero or one runs.
TextNodeRun(node) ==
    IF Trim(node.text) # <<>> THEN <<TextRun(node.text)>> ELSE <<>>

\* An element child skipped only when its text is empty.
ElementRunUntrimmed(node) ==
    LET text == TextContent(node)
        tag == ToLowerCase(node.tagName)
    IN  IF text = <<>> THEN <<>>
        ELSE CASE tag \in {"strong", "b"} ->
                    <<[TextRun(text) EXCEPT !.bold = Some(TRUE)]>>
               [] tag \in {"em", "i"} ->
                    <<[TextRun(text) EXCEPT !.italics = Some(TRUE)]>>
               [] tag = "u" ->
                    <<[TextRun(text) EXCEPT !.underline = Some(TRUE)]>>
               [] tag \in {"s", "strike"} ->
                    <<[TextRun(text) EXCEPT !.strike = Some(TRUE)]>>
               [] tag = "code" ->
                    <<[TextRun(text) EXCEPT !.font = Some("Courier New"),
                                            !.size = Some(CodeRunSize),
                                            !.shading = Some("f4f4f4")]>>
               [] tag = "a" ->
                    <<[TextRun(text) EXCEPT !.color = Some("0066cc"),
                                            !.underline = Some(TRUE)]>>
               [] OTHER -> <<TextRun(text)>>

\* The run processInlineElements pushes for an element child.
ElementRun(node) ==
    LET text == TextContent(node)
        tag == ToLowerCase(node.tagName)
    IN  IF Trim(text) = <<>> THEN <<>>
        ELSE CASE tag \in {"strong", "b"} ->
                    <<[TextRun(text) EXCEPT !.bold = Some(TRUE)]>>
               [] tag \in {"em", "i"} ->
                    <<[TextRun(text) EXCEPT !.italics = Some(TRUE)]>>
               [] tag = "u" ->
                    <<[TextRun(text) EXCEPT !.underline = Some(TRUE)]>>
               [] tag \in {"s", "strike"} ->
                    <<[TextRun(text) EXCEPT !.strike = Some(TRUE)]>>
               [] tag = "code" ->
                    <<[TextRun(text) EXCEPT !.font = Some("Courier New"),
                                            !.size = Some(CodeRunSize),
                                            !.shading = Some("f4f4f4")]>>
               [] tag = "a" ->
                    <<[TextRun(text) EXCEPT !.color = Some("0066cc"),
                                            !.underline = Some(TRUE)]>>
               [] OTHER -> <<TextRun(text)>>

\* The run processInlineElements pushes for one child node.
InlineRun(node) ==
    IF node.type = "text" THEN TextNodeRun(node) ELSE ElementRun(node)

RECURSIVE InlineRuns(_)
InlineRuns(nodes) ==
    IF nodes = <<>> THEN <<>>
    ELSE InlineRun(Head(nodes)) \o InlineRuns(Tail(nodes))

\* The runs processInlineElements appends for an element.
processInlineElements(element) == InlineRuns(element.kids)

\* createParagraph without the plain-text fallback.
createParagraphNoFallback(element) ==
    [Paragraph(processInlineElements(element)) EXCEPT !.after = Some(200)]

createParagraph(element) ==
    LET textRuns == processInlineElements(element)
    IN  [Paragraph(IF Len(textRuns) = 0
                   THEN <<TextRun(TextContent(element))>>
                   ELSE textRuns)
            EXCEPT !.after = Some(200)]

Digit(d) ==
    CASE d = 0 -> "0" [] d = 1 -> "1" [] d = 2 -> "2" [] d = 3 -> "3"
      [] d = 4 -> "4" [] d = 5 -> "5" [] d = 6 -> "6" [] d = 7 -> "7"
      [] d = 8 -> "8" [] d = 9 -> "9"

\* `${n}` for a natural number n.
RECURSIVE NumberToString(_)
NumberToString(n) ==
    IF n < 10 THEN <<Digit(n)>>
    ELSE NumberToString(n \div 10) \o <<Digit(n % 10)>>

\* The bullet glyph, one character.
Bullet == "&bull;"

\* The marker of the list child at (0-based) index.
BulletText(isOrdered, index) ==
    IF isOrdered THEN NumberToString(index + 1) \o <<".">> ELSE <<Bullet>>

\* The paragraph createList pushes for the child at index.
ListItem(li, isOrdered, index) ==
    [Paragraph(<<TextRun(BulletText(isOrdered, index) \o <<" ">> \o TextContent(li))>>)
        EXCEPT !.after = Some(100), !.indent = Some(720)]

RECURSIVE ListFrom(_, _, _)
ListFrom(children, isOrdered, index) ==
    IF index >= Len(children) THEN <<>>
    ELSE (IF ToLowerCase(children[index + 1].tagName) = "li"
          THEN <<ListItem(children[index + 1], isOrdered, index)>>
          ELSE <<>>)
         \o ListFrom(children, isOrdered, index + 1)

createList(listElement) ==
    ListFrom(Children(listElement), ToLowerCase(listElement.tagName) = "ol", 0)

createBlockquote(text) ==
    [Paragraph(<<[TextRun(text) EXCEPT !.italics = Some(TRUE),
                                       !.color = Some("666666")]>>)
        EXCEPT !.before = Some(200), !.after = Some(200), !.indent = Some(720),
               !.border = Some("left")]

createCodeBlock(text) ==
    [Paragraph(<<[TextRun(text) EXCEPT !.font = Some("Courier New"),
                                       !.size = Some(CodeRunSize)]>>)
        EXCEPT !.before = Some(200), !.after = Some(200),
               !.shading = Some("f4f4f4")]

\* HTMLTableElement.rows: the tr children of the table and of its sections.
RECURSIVE TableRows(_)
TableRows(kids) ==
    IF kids = <<>> THEN <<>>
    ELSE LET k == Head(kids)
             tag == ToLowerCase(k.tagName)
         IN  (CASE tag = "tr" -> <<k>>
                [] tag \in {"thead", "tbody", "tfoot"} -> TableRows(Children(k))
                [] OTHER -> <<>>)
             \o TableRows(Tail(kids))

\* HTMLTableRowElement.cells: the td and th children.
RowCells(row) ==
    SelectSeq(Children(row), LAMBDA c : ToLowerCase(c.tagName) \in {"td", "th"})

\* Only the first row is a header row.
IsHeaderCellFirstRow(rowIndex, cell) == rowIndex = 0

IsHeaderCell(rowIndex, cell) ==
    rowIndex = 0 \/ ToLowerCase(cell.tagName) = "th"

TableCell(rowIndex, cell) ==
    LET isHeader == IsHeaderCell(rowIndex, cell)
    IN  [children |-> <<Paragraph(<<[TextRun(TextContent(cell))
                                        EXCEPT !.bold = Some(isHeader)]>>)>>,
         shading |-> IF isHeader THEN Some("f8f9fa") ELSE None]

createTable(tableElement) ==
    LET rows == TableRows(Children(tableElement))
    IN  [type |-> "Table",
         rows |-> [r \in 1..Len(rows) |->
                     LET cells == RowCells(rows[r])
                     IN  [c \in 1..Len(cells) |-> TableCell(r - 1, cells[c])]],
         width |-> 100]

createHorizontalRule ==
    [Paragraph(<<TextRun(<<>>)>>)
        EXCEPT !.before = Some(200), !.after = Some(200),
               !.border = Some("bottom")]

HeadingLevelOf(tag) ==
    CASE tag = "h1" -> "HEADING_1" [] tag = "h2" -> "HEADING_2"
      [] tag = "h3" -> "HEADING_3" [] tag = "h4" -> "HEADING_4"
      [] tag = "h5" -> "HEADING_5" [] tag = "h6" -> "HEADING_6"

\* The default branch testing the text without trimming it.
ElementBlocksUntrimmed(element) ==
    LET tag == ToLowerCase(element.tagName)
    IN  CASE tag \in {"h1", "h2", "h3", "h4", "h5", "h6"} ->
                <<createHeading(TextContent(element), HeadingLevelOf(tag))>>
          [] tag = "p" -> <<createParagraph(element)>>
          [] tag \in {"ul", "ol"} -> createList(element)
          [] tag = "blockquote" -> <<createBlockquote(TextContent(element))>>
          [] tag = "pre" -> <<createCodeBlock(TextContent(element))>>
          [] tag = "table" -> <<createTable(element)>>
          [] tag = "hr" -> <<createHorizontalRule>>
          [] OTHER -> IF TextContent(element) # <<>>
                      THEN <<createParagraph(element)>>
                      ELSE <<>>

\* The blocks processHtmlElements pushes for one top-level element.
ElementBlocks(element) ==
    LET tag == ToLowerCase(element.tagName)
    IN  CASE tag \in {"h1", "h2", "h3", "h4", "h5", "h6"} ->
                <<createHeading(TextContent(element), HeadingLevelOf(tag))>>
          [] tag = "p" -> <<createParagraph(element)>>
          [] tag \in {"ul", "ol"} -> createList(element)
          [] tag = "blockquote" -> <<createBlockquote(TextContent(element))>>
          [] tag = "pre" -> <<createCodeBlock(TextContent(element))>>
          [] tag = "table" -> <<createTable(element)>>
          [] tag = "hr" -> <<createHorizontalRule>>
          [] OTHER -> IF Trim(TextContent(element)) # <<>>
                      THEN <<createParagraph(element)>>
                      ELSE <<>>

\* The blocks of each element put in front of those collected so far.
RECURSIVE processHtmlElementsUnshift(_)
processHtmlElementsUnshift(elements) ==
    IF elements = <<>> THEN <<>>
    ELSE processHtmlElementsUnshift(Tail(elements)) \o ElementBlocks(Head(elements))

RECURSIVE processHtmlElements(_)
processHtmlElements(elements) ==
    IF elements = <<>> THEN <<>>
    ELSE ElementBlocks(Head(elements)) \o processHtmlElements(Tail(elements))

-----------------------------------------------------------------------------
(* createDocxFromHtml: the document assembler                              *)

TitleBlock(title) ==
    [Paragraph(<<[TextRun(title) EXCEPT !.bold = Some(TRUE),
                                        !.size = Some(TitleRunSize)]>>)
        EXCEPT !.heading = Some("TITLE"), !.alignment = Some("CENTER"),
               !.after = Some(400)]

\* 'Exported: <date> <time>' of the ambient clock.
TimestampBlock ==
    [Paragraph(<<[TextRun(<<"Exported: ", "<date>", " ", "<time>">>)
                     EXCEPT !.size = Some(MetadataRunSize),
                            !.color = Some("666666")]>>)
        EXCEPT !.alignment = Some("CENTER"), !.after = Some(400)]

FormatBlock ==
    [Paragraph(<<[TextRun(<<"Format: Microsoft Word Document">>)
                     EXCEPT !.size = Some(MetadataRunSize),
                            !.color = Some("666666")]>>)
        EXCEPT !.alignment = Some("CENTER"), !.after = Some(800)]

FooterBlock ==
    [Paragraph(<<[TextRun(<<"Generated by BOFU Article Editor on ", "<date>">>)
                     EXCEPT !.size = Some(FooterRunSize),
                            !.color = Some("999999")]>>)
        EXCEPT !.alignment = Some("CENTER"), !.before = Some(800)]

\* if (options.includeMetadata)
IncludeMetadata(opts) ==
    IsSome(opts.includeMetadata) /\ Val(opts.includeMetadata)

\* The metadata lines pushed with the format line first.
MetadataBlocksFormatFirst(opts) ==
    IF IncludeMetadata(opts) THEN <<FormatBlock, TimestampBlock>> ELSE <<>>

\* The blocks pushed for the metadata when options.includeMetadata is set.
MetadataBlocks(opts) ==
    IF IncludeMetadata(opts) THEN <<TimestampBlock, FormatBlock>> ELSE <<>>

\* The footer pushed only under a body that gave blocks.
FooterBlocksOfBody(blocks) == IF blocks = <<>> THEN <<>> ELSE <<FooterBlock>>

\* The footer pushed after the blocks of the body.
FooterBlocks(blocks) == <<FooterBlock>>

\* The sections array createDocxFromHtml builds for the parsed body.
SectionsOf(elements, title, opts) ==
    LET contentElements == processHtmlElements(elements)
    IN  <<TitleBlock(title)>>
        \o MetadataBlocks(opts)
        \o contentElements
        \o FooterBlocks(contentElements)

\* The sections array createDocxFromHtml hands to new Document.
Sections(html, title, opts) == SectionsOf(ParseBody(html), title, opts)

NewDocument(html, title, opts) ==
    [creator |-> "BOFU Article Editor",
     title |-> title,
     description |-> <<"Exported article: ">> \o title,
     children |-> Sections(html, title, opts)]

-----------------------------------------------------------------------------
(* export(content, options): the orchestrator                              *)

DefaultTitle == <<"Untitled Article">>
UnsupportedMessage == "Unsupported content format for DOCX export"
UnknownMessage == "Unknown DOCX export error"

UnsupportedError == [isError |-> TRUE, message |-> Some(UnsupportedMessage)]

\* The chain with a last branch that treats anything else as json.
ShapeJsonFallback(c) ==
    IF c.kind = "string" THEN "string"
    ELSE IF IsSome(c.editor) /\ Val(c.editor) = "Editor" THEN "editor"
    ELSE IF TruthyHtml(c.html) THEN "html"
    ELSE "json"

\* The branch the if / else-if chain on content takes.
Shape(c) ==
    IF c.kind = "string" THEN "string"
    ELSE IF IsSome(c.editor) /\ Val(c.editor) = "Editor" THEN "editor"
    ELSE IF TruthyHtml(c.html) THEN "html"
    ELSE IF IsSome(c.json) THEN "json"
    ELSE "unsupported"

\* content.title ?? articleTitle: only an absent title gets the default.
ResolveTitleNullish(c) == IF IsSome(c.title) THEN Val(c.title) ELSE DefaultTitle

\* content.title || articleTitle
ResolveTitle(c) == IF Truthy(c.title) THEN Val(c.title) ELSE DefaultTitle

\* The collaborators of the base class ExportStrategy, as the values they
\* are applied to.
generateFilename(title, format, customFilename) ==
    [fn |-> "generateFilename", title |-> title, format |-> format,
     customFilename |-> customFilename]

createMetadata(format, checksum, articleId, title) ==
    [fn |-> "createMetadata", format |-> format, checksum |-> checksum,
     articleId |-> articleId, title |-> title]

\* Packer.toBlob(document): the artifact of a document.
ToBlob(doc) == [blobOf |-> doc]

\* The statements inside the try block of export().
TrySteps ==
    {"string", "editor.getHTML", "html", "new Editor", "tempEditor.getHTML",
     "tempEditor.destroy", "unsupported", "createDocument", "Packer.toBlob",
     "generateFilename", "saveAs", "createMetadata"}

\* A try block that ends before the download is triggered.
InTryBeforeSave(step) == step \in TrySteps \ {"saveAs", "createMetadata"}

InTry(step) == step \in TrySteps

\* An order that triggers the download before the document is serialized.
StepAfterSaveFirst(step) ==
    CASE step \in {"string", "editor.getHTML", "html", "tempEditor.destroy"} ->
            "createDocument"
      [] step = "new Editor" -> "tempEditor.getHTML"
      [] step = "tempEditor.getHTML" -> "tempEditor.destroy"
      [] step = "createDocument" -> "generateFilename"
      [] step = "generateFilename" -> "saveAs"
      [] step = "saveAs" -> "Packer.toBlob"
      [] step = "Packer.toBlob" -> "createMetadata"
      [] step = "createMetadata" -> "done"

\* The statement that runs after step returned normally.
StepAfter(step) ==
    CASE step \in {"string", "editor.getHTML", "html", "tempEditor.destroy"} ->
            "createDocument"
      [] step = "new Editor" -> "tempEditor.getHTML"
      [] step = "tempEditor.getHTML" -> "tempEditor.destroy"
      [] step = "createDocument" -> "Packer.toBlob"
      [] step = "Packer.toBlob" -> "generateFilename"
      [] step = "generateFilename" -> "saveAs"
      [] step = "saveAs" -> "createMetadata"
      [] step = "createMetadata" -> "done"

\* A catch block that tries the serializer again.
AfterThrowRetry(step) == IF step = "Packer.toBlob" THEN step ELSE "done"

\* Where control goes when step threw: the catch block returns.
AfterThrow(step) == "done"

\* error?.message || 'Unknown DOCX export error': any message field is used.
ErrorMessageOfField(error) ==
    IF IsSome(error.message) /\ Val(error.message) # ""
    THEN Val(error.message) ELSE UnknownMessage

\* error instanceof Error ? error.message : 'Unknown DOCX export error'
ErrorMessage(error) ==
    IF error.isError THEN Val(error.message) ELSE UnknownMessage

\* A catch block that hands back the artifact built so far.
FailureResultKeepsBlob(c, error) ==
    [success |-> FALSE, filename |-> None, blob |-> docxBlob[c],
     metadata |-> None, error |-> Some(ErrorMessage(error))]

\* The object the catch block returns in call c.
FailureResult(c, error) ==
    [success |-> FALSE, filename |-> None, blob |-> None, metadata |-> None,
     error |-> Some(ErrorMessage(error))]

\* A success object that also carries an (empty) error.
SuccessResultWithError(name, blob, metadata) ==
    [success |-> TRUE, filename |-> Some(name), blob |-> Some(blob),
     metadata |-> Some(metadata), error |-> Some("")]

\* The object the try block returns.
SuccessResult(name, blob, metadata) ==
    [success |-> TRUE, filename |-> Some(name), blob |-> Some(blob),
     metadata |-> Some(metadata), error |-> None]

Pending == [state |-> "pending"]
Resolved(v) == [state |-> "resolved", value |-> v]
Rejected(e) == [state |-> "rejected", reason |-> e]

Logged(c, step, ok) ==
    log' = [log EXCEPT ![c] = Append(@, [step |-> step, ok |-> ok])]

\* step returned normally in call c.
Return(c, step) ==
    /\ pc' = [pc EXCEPT ![c] = StepAfter(step)]
    /\ Logged(c, step, TRUE)
    /\ UNCHANGED <<thrown, formatVars, uiVars>>

\* step threw error in call c: the catch block turns it into the result, and
\* a throw outside the try block rejects the promise.
Raise(c, step, error) ==
    /\ pc' = [pc EXCEPT ![c] = AfterThrow(step)]
    /\ Logged(c, step, FALSE)
    /\ promise' = [promise EXCEPT ![c] =
                      IF InTry(step) THEN Resolved(FailureResult(c, error))
                      ELSE Rejected(error)]
    /\ thrown' = [thrown EXCEPT ![c] = Some(error)]
    /\ UNCHANGED <<formatVars, uiVars>>

-----------------------------------------------------------------------------
(* Initial state and the steps of a call                                   *)

\* No component of the product pages is mounted.
Unmounted == "unmounted"
UiUnmounted ==
    /\ modal = Unmounted /\ card = Unmounted
    /\ autosave = Unmounted /\ picker = Unmounted

\* One export() call, call 1, is followed from its invocation; the state of
\* a call is kept per call so that calls in flight together can be followed.
InitCalls(invoked) ==
    /\ pc = [c \in Calls |-> IF c \in invoked THEN "idle" ELSE "unused"]
    /\ content = [c \in Calls |-> NullContent]
    /\ options = [c \in Calls |-> [includeMetadata |-> None, customFilename |-> None]]
    /\ htmlContent = [c \in Calls |-> None]
    /\ articleTitle = [c \in Calls |-> DefaultTitle]
    /\ tempEditor = [c \in Calls |-> "none"]
    /\ document = [c \in Calls |-> None]
    /\ docxBlob = [c \in Calls |-> None]
    /\ filename = [c \in Calls |-> None]
    /\ promise = [c \in Calls |-> Pending]
    /\ downloads = [c \in Calls |-> <<>>]
    /\ log = [c \in Calls |-> <<>>]
    /\ thrown = [c \in Calls |-> None]

Init == InitCalls({1}) /\ input = None /\ output = None /\ UiUnmounted

\* The caller invokes export(content, options).
Export(c) ==
    /\ pc[c] = "idle"
    /\ \E cnt \in Contents, opts \in OptionsSet :
          /\ content' = [content EXCEPT ![c] = cnt]
          /\ options' = [options EXCEPT ![c] = opts]
    /\ pc' = [pc EXCEPT ![c] = "normalize"]
    /\ UNCHANGED <<htmlContent, articleTitle, tempEditor, document, docxBlob,
                   filename, promise, downloads, log, thrown, formatVars,
                   uiVars>>

\* typeof content === 'string'
UseString(c) ==
    /\ pc[c] = "normalize" /\ Shape(content[c]) = "string"
    /\ htmlContent' = [htmlContent EXCEPT ![c] = Some(content[c].str)]
    /\ Return(c, "string")
    /\ UNCHANGED <<content, options, articleTitle, tempEditor, document,
                   docxBlob, filename, promise, downloads>>

\* content.editor instanceof Editor: content.editor.getHTML()
EditorGetHTML(c) ==
    /\ pc[c] = "normalize" /\ Shape(content[c]) = "editor"
    /\ \/ /\ htmlContent' = [htmlContent EXCEPT ![c] = Some(HtmlEditor)]
          /\ articleTitle' = [articleTitle EXCEPT ![c] = ResolveTitle(content[c])]
          /\ Return(c, "editor.getHTML")
          /\ UNCHANGED promise
       \/ /\ \E e \in Thrown : Raise(c, "editor.getHTML", e)
          /\ UNCHANGED <<htmlContent, articleTitle>>
    /\ UNCHANGED <<content, options, tempEditor, document, docxBlob, filename,
                   downloads>>

\* content.html
UseHtml(c) ==
    /\ pc[c] = "normalize" /\ Shape(content[c]) = "html"
    /\ htmlContent' = [htmlContent EXCEPT ![c] = content[c].html]
    /\ articleTitle' = [articleTitle EXCEPT ![c] = ResolveTitle(content[c])]
    /\ Return(c, "html")
    /\ UNCHANGED <<content, options, tempEditor, document, docxBlob, filename,
                   promise, downloads>>

\* content.json: new Editor({content: content.json, editable: false})
NewEditor(c) ==
    /\ pc[c] = "normalize" /\ Shape(content[c]) = "json"
    /\ \/ /\ tempEditor' = [tempEditor EXCEPT ![c] = "alive"]
          /\ Return(c, "new Editor")
          /\ UNCHANGED promise
       \/ /\ \E e \in Thrown : Raise(c, "new Editor", e)
          /\ UNCHANGED tempEditor
    /\ UNCHANGED <<content, options, htmlContent, articleTitle, document,
                   docxBlob, filename, downloads>>

\* tempEditor.getHTML()
TempGetHTML(c) ==
    /\ pc[c] = "tempEditor.getHTML"
    /\ \/ /\ htmlContent' = [htmlContent EXCEPT ![c] = Some(HtmlJson)]
          /\ Return(c, "tempEditor.getHTML")
          /\ UNCHANGED promise
       \/ /\ \E e \in Thrown : Raise(c, "tempEditor.getHTML", e)
          /\ UNCHANGED htmlContent
    /\ UNCHANGED <<content, options, articleTitle, tempEditor, document,
                   docxBlob, filename, downloads>>

\* tempEditor.destroy(), then the title
Destroy(c) ==
    /\ pc[c] = "tempEditor.destroy"
    /\ \/ /\ tempEditor' = [tempEditor EXCEPT ![c] = "destroyed"]
          /\ articleTitle' = [articleTitle EXCEPT ![c] = ResolveTitle(content[c])]
          /\ Return(c, "tempEditor.destroy")
          /\ UNCHANGED promise
       \/ /\ \E e \in Thrown : Raise(c, "tempEditor.destroy", e)
          /\ UNCHANGED <<tempEditor, articleTitle>>
    /\ UNCHANGED <<content, options, htmlContent, document, docxBlob, filename,
                   downloads>>

\* throw new Error('Unsupported content format for DOCX export')
Unsupported(c) ==
    /\ pc[c] = "normalize" /\ Shape(content[c]) = "unsupported"
    /\ Raise(c, "unsupported", UnsupportedError)
    /\ UNCHANGED <<content, options, htmlContent, articleTitle, tempEditor,
                   document, docxBlob, filename, downloads>>

\* createDocxFromHtml up to new Document(...): parse, walk, assemble.
CreateDocument(c) ==
    /\ pc[c] = "createDocument"
    /\ \/ /\ document' = [document EXCEPT ![c] =
                 Some(NewDocument(Val(htmlContent[c]), articleTitle[c], options[c]))]
          /\ Return(c, "createDocument")
          /\ UNCHANGED promise
       \/ /\ \E e \in Thrown : Raise(c, "createDocument", e)
          /\ UNCHANGED document
    /\ UNCHANGED <<content, options, htmlContent, articleTitle, tempEditor,
                   docxBlob, filename, downloads>>

\* await Packer.toBlob(document)
PackerToBlob(c) ==
    /\ pc[c] = "Packer.toBlob"
    /\ \/ /\ docxBlob' = [docxBlob EXCEPT ![c] = Some(ToBlob(Val(document[c])))]
          /\ Return(c, "Packer.toBlob")
          /\ UNCHANGED promise
       \/ /\ \E e \in Thrown : Raise(c, "Packer.toBlob", e)
          /\ UNCHANGED docxBlob
    /\ UNCHANGED <<content, options, htmlContent, articleTitle, tempEditor,
                   document, filename, downloads>>

\* The title kept in one field of the strategy instance, which the call that
\* resolved its title last has overwritten.
FilenameArgsSharedTitle(c) ==
    LET others == {d \in Calls \ {c} : Len(log[d]) > 0}
    IN  <<IF others = {} THEN articleTitle[c]
          ELSE articleTitle[CHOOSE d \in others : TRUE],
          "docx", options[c].customFilename>>

\* The arguments export() passes to generateFilename.
FilenameArgs(c) == <<articleTitle[c], "docx", options[c].customFilename>>

\* this.generateFilename(articleTitle, 'docx', options.customFilename)
GenerateFilename(c) ==
    /\ pc[c] = "generateFilename"
    /\ \/ /\ filename' = [filename EXCEPT ![c] =
                 LET a == FilenameArgs(c)
                 IN  Some(generateFilename(a[1], a[2], a[3]))]
          /\ Return(c, "generateFilename")
          /\ UNCHANGED promise
       \/ /\ \E e \in Thrown : Raise(c, "generateFilename", e)
          /\ UNCHANGED filename
    /\ UNCHANGED <<content, options, htmlContent, articleTitle, tempEditor,
                   document, docxBlob, downloads>>

\* The arguments export() passes to saveAs.
SaveAsArgs(c) == [blob |-> docxBlob[c], filename |-> filename[c]]

\* saveAs(docxBlob, filename)
SaveAs(c) ==
    /\ pc[c] = "saveAs"
    /\ downloads' = [downloads EXCEPT ![c] = Append(@, SaveAsArgs(c))]
    /\ \/ /\ Return(c, "saveAs")
          /\ UNCHANGED promise
       \/ \E e \in Thrown : Raise(c, "saveAs", e)
    /\ UNCHANGED <<content, options, htmlContent, articleTitle, tempEditor,
                   document, docxBlob, filename>>

\* The format tag passed where the checksum goes.
MetadataArgsChecksum(c) == <<"docx", "docx", content[c].articleId, articleTitle[c]>>

\* The arguments export() passes to createMetadata.
MetadataArgs(c) == <<"docx", "", content[c].articleId, articleTitle[c]>>

\* return {success: true, filename, blob: docxBlob, metadata: createMetadata(...)}
ReturnSuccess(c) ==
    /\ pc[c] = "createMetadata"
    /\ \/ /\ promise' = [promise EXCEPT ![c] =
                 LET a == MetadataArgs(c)
                 IN  Resolved(SuccessResult(Val(filename[c]), Val(docxBlob[c]),
                                            createMetadata(a[1], a[2], a[3], a[4])))]
          /\ Return(c, "createMetadata")
       \/ \E e \in Thrown : Raise(c, "createMetadata", e)
    /\ UNCHANGED <<content, options, htmlContent, articleTitle, tempEditor,
                   document, docxBlob, filename, downloads>>

Step(c) ==
    \/ Export(c)
    \/ UseString(c)
    \/ EditorGetHTML(c)
    \/ UseHtml(c)
    \/ NewEditor(c)
    \/ TempGetHTML(c)
    \/ Destroy(c)
    \/ Unsupported(c)
    \/ CreateDocument(c)
    \/ PackerToBlob(c)
    \/ GenerateFilename(c)
    \/ SaveAs(c)
    \/ ReturnSuccess(c)

Next == \E c \in Calls : Step(c)

Spec == Init /\ [][Next]_vars

-----------------------------------------------------------------------------
(* Properties of export()                                                  *)

Started == {c \in Calls : pc[c] \notin {"idle", "unused"}}
Done(c) == pc[c] = "done"
NoFailedStep ==
    \A c \in Calls : \A i \in 1..Len(log[c]) : log[c][i].ok
Indexes(c, step) == {i \in 1..Len(log[c]) : log[c][i].step = step}
Threw(c, step) == \E i \in Indexes(c, step) : ~log[c][i].ok
Returned(c, step) == \E i \in Indexes(c, step) : log[c][i].ok
Failed(c) == promise[c].state = "resolved" /\ ~promise[c].value.success
Succeeded(c) == promise[c].state = "resolved" /\ promise[c].value.success

\* C1: the result export() resolves to is a success result or a failure
\* result and never both: with success=false it carries an error and no
\* blob, filename or metadata; with success=true it carries blob, filename
\* and metadata and no error.
C1_ResultExclusive ==
    \A c \in Calls :
        promise[c].state = "resolved" =>
            LET r == promise[c].value
            IN  /\ r.success =>
                    /\ r.error = None
                    /\ IsSome(r.blob) /\ IsSome(r.filename) /\ IsSome(r.metadata)
                /\ ~r.success =>
                    /\ r.blob = None /\ r.filename = None /\ r.metadata = None
                    /\ IsSome(r.error)

\* A call that failed although its artifact and filename already existed.
C1_Witness ==
    \E c \in Calls : Failed(c) /\ IsSome(docxBlob[c]) /\ IsSome(filename[c])

\* C2: no failure inside export() reaches the caller as a rejection:
\* whichever step threw, the promise is resolved with success=false, and a
\* finished call has always resolved its promise.
C2_NoRejection ==
    \A c \in Calls :
        /\ promise[c].state # "rejected"
        /\ Done(c) => promise[c].state = "resolved"
        /\ \A step \in TrySteps : Threw(c, step) => Failed(c)

\* createMetadata, the last statement of the try block, threw.
C2_Witness == \E c \in Calls : Threw(c, "createMetadata") /\ Failed(c)

\* Content that is no string and has no live editor, no html and no json.
MatchesNoShape(cnt) ==
    \/ cnt.kind \in {"number", "null"}
    \/ /\ cnt.kind = "object"
       /\ cnt.editor # Some("Editor") /\ cnt.html = None /\ cnt.json = None

\* C3: export() of content matching no shape (such as the number 42) fails
\* with exactly the unsupported-format message; no document is built, the
\* serializer is not invoked and saveAs is not invoked.
C3_UnsupportedContent ==
    \A c \in Started :
        MatchesNoShape(content[c]) =>
            /\ pc[c] \in {"normalize", "done"}
            /\ Done(c) =>
                  /\ Failed(c)
                  /\ promise[c].value.error = Some(UnsupportedMessage)
            /\ document[c] = None /\ docxBlob[c] = None /\ downloads[c] = <<>>
            /\ tempEditor[c] = "none"
            /\ \A step \in {"createDocument", "Packer.toBlob", "saveAs"} :
                  Indexes(c, step) = {}

C3_Witness == \E c \in Calls : Done(c) /\ content[c] = NumberContent

\* C4: given json content, the temporary editor export() created has been
\* destroyed exactly once when the call returns, on every exit path, and
\* is not left alive.
C4_TempEditorDestroyedOnce ==
    \A c \in Calls :
        (Done(c) /\ Returned(c, "new Editor")) =>
            /\ Cardinality(Indexes(c, "tempEditor.destroy")) = 1
            /\ tempEditor[c] = "destroyed"

\* C5: when saveAs throws after the serializer produced the artifact, the
\* call resolves to success=false and the artifact is not in the result.
C5_SaveFailureDropsArtifact ==
    \A c \in Calls :
        Threw(c, "saveAs") =>
            /\ IsSome(docxBlob[c])
            /\ Failed(c)
            /\ promise[c].value.blob = None

C5_Witness == \E c \in Calls : Threw(c, "saveAs") /\ Done(c)

\* The phase of the export state machine a step belongs to.
PhaseOf(step) ==
    CASE step \in {"string", "editor.getHTML", "html", "new Editor",
                   "tempEditor.getHTML", "tempEditor.destroy", "unsupported"} ->
            "Normalizing"
      [] step = "createDocument" -> "Converting"
      [] step = "Packer.toBlob" -> "Serializing"
      [] step \in {"generateFilename", "saveAs", "createMetadata"} -> "Saving"

PhaseOrder == <<"Normalizing", "Converting", "Serializing", "Saving">>

\* The phases a call went through: the phases of its steps, a run of steps
\* of one phase counted once.
RECURSIVE PhasesFrom(_, _)
PhasesFrom(steps, last) ==
    IF steps = <<>> THEN <<>>
    ELSE LET ph == PhaseOf(Head(steps).step)
         IN  (IF ph = last THEN <<>> ELSE <<ph>>) \o PhasesFrom(Tail(steps), ph)

Phases(c) == PhasesFrom(log[c], "Idle")

\* C6: a call goes through Normalizing, Converting, Serializing, Saving in
\* that order, skipping and revisiting none; it ends in one terminal state,
\* Succeeded only after the last step of Saving returned, Failed from the
\* step that threw, which is the last step the call ran; saveAs runs only
\* after Packer.toBlob returned and not after a failure.
C6_PhaseOrder ==
    \A c \in Started :
        LET ph == Phases(c)
            n == Len(log[c])
        IN  /\ Len(ph) <= Len(PhaseOrder)
            /\ ph = SubSeq(PhaseOrder, 1, Len(ph))
            /\ \A i \in 1..n : ~log[c][i].ok => i = n
            /\ \A i \in Indexes(c, "saveAs") :
                  \E j \in 1..(i - 1) :
                      log[c][j] = [step |-> "Packer.toBlob", ok |-> TRUE]
            /\ (promise[c].state = "pending") = ~Done(c)
            /\ Succeeded(c) =>
                  /\ ph = PhaseOrder
                  /\ log[c][n] = [step |-> "createMetadata", ok |-> TRUE]
            /\ Failed(c) => ~log[c][n].ok
            /\ Done(c) => (Succeeded(c) /\ NoFailedStep) \/ Failed(c)

\* A call that failed in Converting, after Normalizing and before any later
\* phase.
C6_Witness ==
    \E c \in Calls :
        Done(c) /\ Threw(c, "createDocument")
        /\ Phases(c) = <<"Normalizing", "Converting">>

\* C7: there is no retry within a call: Packer.toBlob and saveAs are each
\* invoked at most once, no step runs twice, and the step that failed is
\* the last step of the call.
C7_NoRetry ==
    \A c \in Calls :
        /\ \A step \in TrySteps : Cardinality(Indexes(c, step)) <= 1
        /\ Len(downloads[c]) <= 1
        /\ \A i \in 1..Len(log[c]) :
              ~log[c][i].ok => (i = Len(log[c]) /\ Done(c))

\* The serializer failed and the call is over.
C7_Witness == \E c \in Calls : Threw(c, "Packer.toBlob") /\ Done(c)

\* C8: on success saveAs was invoked exactly once, with the blob and the
\* filename the result carries; the filename is generateFilename(resolved
\* title, 'docx', options.customFilename); the metadata is
\* createMetadata('docx', '', content.articleId, resolved title).
C8_SuccessResult ==
    \A c \in Calls :
        Succeeded(c) =>
            LET r == promise[c].value
            IN  /\ downloads[c] = <<[blob |-> r.blob, filename |-> r.filename]>>
                /\ r.blob = Some(ToBlob(Val(document[c])))
                /\ r.filename =
                      Some(generateFilename(articleTitle[c], "docx",
                                            options[c].customFilename))
                /\ r.metadata =
                      Some(createMetadata("docx", "", content[c].articleId,
                                          articleTitle[c]))

\* A successful export with a custom filename and an article id.
C8_Witness ==
    \E c \in Calls :
        /\ Succeeded(c)
        /\ IsSome(options[c].customFilename)
        /\ IsSome(content[c].articleId)

\* The shape of content by the priority order string, live editor, object
\* with an html field, object with a json field; an html field counts when
\* it is there, the empty string included.
ShapeByField(cnt) ==
    IF cnt.kind = "string" THEN "string"
    ELSE IF cnt.editor = Some("Editor") THEN "editor"
    ELSE IF IsSome(cnt.html) THEN "html"
    ELSE IF IsSome(cnt.json) THEN "json"
    ELSE "unsupported"

\* The first step of normalization for a shape.
FirstStep(shape) ==
    CASE shape = "string" -> "string"
      [] shape = "editor" -> "editor.getHTML"
      [] shape = "html" -> "html"
      [] shape = "json" -> "new Editor"
      [] shape = "unsupported" -> "unsupported"

\* C9: normalization takes the first matching shape in the order string,
\* live editor, html field, json field: a string is used directly, an
\* object with html and json uses html and creates no temporary editor, and
\* every object with an html field, the empty string included, is taken as
\* html and neither as json nor as unsupported.
C9_ShapeByField ==
    \A c \in Calls :
        Len(log[c]) > 0 =>
            LET shape == ShapeByField(content[c])
            IN  /\ log[c][1].step = FirstStep(shape)
                /\ shape = "string" => htmlContent[c] = Some(content[c].str)
                /\ shape = "html" =>
                      /\ htmlContent[c] = content[c].html
                      /\ tempEditor[c] = "none"

\* C9 for the content the code takes by its priority order: a string is
\* used directly, a live editor's HTML is used before an html or json
\* field, and a non-empty html field is used before a json field, without a
\* temporary editor.
C9_ShapeOfTruthyHtml ==
    \A c \in Calls :
        (Len(log[c]) > 0 /\ content[c].html # Some(HtmlEmpty)) =>
            LET shape == ShapeByField(content[c])
            IN  /\ log[c][1].step = FirstStep(shape)
                /\ shape = "string" => htmlContent[c] = Some(content[c].str)
                /\ shape = "html" =>
                      /\ htmlContent[c] = content[c].html
                      /\ tempEditor[c] = "none"

\* The title as supplied: content.title when the field is there.
SuppliedTitle(cnt) == IF IsSome(cnt.title) THEN Val(cnt.title) ELSE DefaultTitle

\* The title when a non-empty one is supplied.
NonEmptyTitle(cnt) ==
    IF IsSome(cnt.title) /\ Val(cnt.title) # <<>> THEN Val(cnt.title)
    ELSE DefaultTitle

\* title is the title in every place a call has used one so far: the Title
\* block, the document properties, the filename and the result metadata.
TitleUsedIs(c, title) ==
    /\ IsSome(document[c]) =>
          /\ Val(document[c]).title = title
          /\ Val(document[c]).children[1].heading = Some("TITLE")
          /\ Val(document[c]).children[1].children[1].text = title
    /\ IsSome(filename[c]) => Val(filename[c]).title = title
    /\ Succeeded(c) => Val(promise[c].value.metadata).title = title

\* C10 as stated: the resolved title is the input's title when one is
\* supplied and 'Untitled Article' otherwise, and that title is the one in
\* the Title block, the document properties, the filename and the metadata.
C10_TitleAsSupplied ==
    \A c \in Calls :
        IsSome(document[c]) =>
            /\ articleTitle[c] = SuppliedTitle(content[c])
            /\ TitleUsedIs(c, SuppliedTitle(content[c]))

\* C10, amended: the resolved title is the input's title when a non-empty
\* one is supplied and 'Untitled Article' otherwise (also for an empty
\* title), and that title is the one in the Title block, the document
\* properties, the filename and the metadata.
C10_TitleResolved ==
    \A c \in Calls :
        IsSome(document[c]) =>
            /\ articleTitle[c] = NonEmptyTitle(content[c])
            /\ TitleUsedIs(c, NonEmptyTitle(content[c]))

\* A successful export of content whose title is the empty string.
C10_Witness ==
    \E c \in Calls :
        /\ Succeeded(c)
        /\ content[c].title = Some(<<>>)
        /\ articleTitle[c] = DefaultTitle

\* The message of a thrown value, when it carries one.
CarriedMessage(e) == e.message

\* C11 as stated: on failure the error is the message of the cause, and the
\* generic message is used exactly when the cause carries no message.
C11_ErrorIsCauseMessage ==
    \A c \in Calls :
        (Failed(c) /\ IsSome(thrown[c])) =>
            LET e == Val(thrown[c])
                msg == Val(promise[c].value.error)
            IN  /\ IsSome(CarriedMessage(e)) => msg = Val(CarriedMessage(e))
                /\ (msg = UnknownMessage) = (CarriedMessage(e) = None)

\* C11, amended: on failure the error is the message of the cause when the
\* cause is an Error (the empty message of an Error included), and the
\* generic message exactly when the cause is not an Error, whether or not it
\* has a message field.
C11_ErrorOfErrorInstance ==
    \A c \in Calls :
        (Failed(c) /\ IsSome(thrown[c])) =>
            LET e == Val(thrown[c])
                msg == Val(promise[c].value.error)
            IN  /\ e.isError => msg = Val(e.message)
                /\ ~e.isError => msg = UnknownMessage
                /\ (msg = UnknownMessage) = ~e.isError

\* A call failed on a thrown object that is no Error and has a message.
C11_Witness ==
    \E c \in Calls :
        /\ Failed(c)
        /\ thrown[c] = Some([isError |-> FALSE, message |-> Some("boom")])
        /\ promise[c].value.error = Some(UnknownMessage)

-----------------------------------------------------------------------------
(* The formatters applied to bounded inputs                                *)

\* The sequences over S of length at most n.
SeqsUpTo(S, n) == UNION {[1..k -> S] : k \in 0..n}

A == <<"a">>
B == <<"b">>
X == <<"x">>

\* No export() call is followed; a formatter is applied to input once.
InitFormat(inputs) ==
    /\ InitCalls({})
    /\ input \in {Some(i) : i \in inputs}
    /\ output = None
    /\ UiUnmounted

Apply(result) ==
    /\ output = None
    /\ output' = Some(result)
    /\ UNCHANGED <<exportVars, input, uiVars>>

\* createList ---------------------------------------------------------------

MaxListChildren == 3

\* The children of a list: li elements, and an element that is no li.
ListChildKinds == {El("LI", <<Text(A)>>), El("LI", <<Text(B)>>), El("DIV", <<Text(X)>>)}

ListElements ==
    {El(tag, kids) : tag \in {"UL", "OL"},
                     kids \in SeqsUpTo(ListChildKinds, MaxListChildren)}

CallCreateList == Apply(createList(Val(input)))

InitList == InitFormat(ListElements)
SpecList == InitList /\ [][CallCreateList]_vars

IsLi(n) == ToLowerCase(n.tagName) = "li"
LiChildren(list) == SelectSeq(Children(list), IsLi)

\* C12: for a list with N direct li children createList returns N blocks,
\* one per li in source order; in an ordered list the k-th block is marked
\* 'k.', whatever other children the list has, and in an unordered list
\* every block is marked with the bullet; other children give no block.
C12_ListMarkers ==
    IsSome(output) =>
        LET list == Val(input)
            lis == LiChildren(list)
            out == Val(output)
        IN  /\ Len(out) = Len(lis)
            /\ \A k \in 1..Len(out) :
                  out[k].children =
                      <<TextRun((IF list.tagName = "OL"
                                 THEN NumberToString(k) \o <<".">>
                                 ELSE <<Bullet>>)
                                \o <<" ">> \o TextContent(lis[k]))>>

\* createTable ----------------------------------------------------------------

MaxRows == 2
MaxCells == 2

CellKinds == {El("TD", <<Text(A)>>), El("TH", <<Text(B)>>)}

TableOfRows(cellRows) ==
    El("TABLE", <<El("TBODY", [r \in 1..Len(cellRows) |-> El("TR", cellRows[r])])>>)

CellRows == SeqsUpTo(SeqsUpTo(CellKinds, MaxCells), MaxRows)

\* seq with the elements at i and j exchanged.
Swap(seq, i, j) ==
    [k \in 1..Len(seq) |-> IF k = i THEN seq[j] ELSE IF k = j THEN seq[i] ELSE seq[k]]

\* The exchange of the cells at i and j of row `row` is one of the table
\* (row 0: nothing is exchanged).
ValidTableInput(rows, row, i, j) ==
    \/ row = 0 /\ i = 0 /\ j = 0
    \/ /\ row \in 1..Len(rows)
       /\ 1 <= i /\ i < j /\ j <= Len(rows[row])

PermutedRows(in) ==
    IF in.row = 0 THEN in.rows
    ELSE [in.rows EXCEPT ![in.row] = Swap(@, in.i, in.j)]

\* createTable on a table, and on the same table with two cells of one row
\* exchanged.
CallCreateTable ==
    \E row \in 0..MaxRows, i \in 0..MaxCells, j \in 0..MaxCells :
        /\ ValidTableInput(Val(input), row, i, j)
        /\ Apply([row |-> row, i |-> i, j |-> j,
                  table |-> createTable(TableOfRows(Val(input))),
                  permuted |-> createTable(TableOfRows(PermutedRows(
                      [rows |-> Val(input), row |-> row, i |-> i, j |-> j])))])

InitTable == InitFormat(CellRows)
SpecTable == InitTable /\ [][CallCreateTable]_vars

\* The cell is rendered as a header: bold text and header shading.
BoldCell(cell) == cell.children[1].children[1].bold = Some(TRUE)
ShadedCell(cell) == cell.shading = Some("f8f9fa")

\* C13: a cell of the table createTable returns is header-styled, bold and
\* shaded together and never one without the other, if and only if it is in
\* the first row or its tag is th; exchanging cells within a row exchanges
\* the produced cells the same way and changes nothing else.
C13_HeaderCells ==
    IsSome(output) =>
        LET in == Val(input)
            out == Val(output).table
            perm == Val(output).permuted
        IN  /\ Len(out.rows) = Len(in)
            /\ \A r \in 1..Len(in) :
                  /\ Len(out.rows[r]) = Len(in[r])
                  /\ \A k \in 1..Len(in[r]) :
                        LET header == r = 1 \/ in[r][k].tagName = "TH"
                        IN  /\ BoldCell(out.rows[r][k]) = header
                            /\ ShadedCell(out.rows[r][k]) = header
                            /\ IsSome(out.rows[r][k].shading) = header
                            /\ out.rows[r][k].children[1].children[1].text =
                                  TextContent(in[r][k])
            /\ perm.rows = PermutedRows([rows |-> out.rows,
                                         row |-> Val(output).row,
                                         i |-> Val(output).i,
                                         j |-> Val(output).j])

\* A table with a th below the first row next to a td, the two exchanged.
C13_Witness ==
    /\ IsSome(output)
    /\ Val(output).row = 2
    /\ Val(input)[2] = <<El("TD", <<Text(A)>>), El("TH", <<Text(B)>>)>>
    /\ Val(output).permuted.rows[2] # Val(output).table.rows[2]

\* createParagraph ----------------------------------------------------------

MaxInlineChildren == 2

\* Child nodes of a block element: text nodes (plain, blank, padded) and
\* inline elements (each styled tag, an unstyled one, an empty one, a blank
\* one, one with a nested inline element).
InlineKinds ==
    {Text(A), Text(<<" ">>), Text(<<" ", "a", " ">>)}
    \cup {El(tag, <<Text(B)>>) :
            tag \in {"STRONG", "B", "EM", "I", "U", "S", "STRIKE", "CODE", "A", "SPAN"}}
    \cup {El("EM", <<>>), El("I", <<Text(<<" ">>)>>),
          El("SPAN", <<El("B", <<Text(X)>>), Text(A)>>)}

ParagraphElements ==
    {El("P", kids) : kids \in SeqsUpTo(InlineKinds, MaxInlineChildren)}

CallCreateParagraph == Apply(createParagraph(Val(input)))

InitParagraph == InitFormat(ParagraphElements)
SpecParagraph == InitParagraph /\ [][CallCreateParagraph]_vars

\* The node has no text but white space.
Blank(node) == Trim(TextContent(node)) = <<>>

\* C14: the Paragraph createParagraph returns has at least one run; when no
\* child contributes a run (no children, or only blank ones) it has exactly
\* one run, with the element's flattened text, the empty string for <p></p>,
\* and no styling.
C14_ParagraphHasRun ==
    IsSome(output) =>
        LET el == Val(input)
            runs == Val(output).children
        IN  /\ Val(output).type = "Paragraph"
            /\ Len(runs) >= 1
            /\ (\A k \in 1..Len(el.kids) : Blank(el.kids[k])) =>
                  runs = <<TextRun(TextContent(el))>>
            /\ el.kids = <<>> => runs = <<TextRun(<<>>)>>

\* The fallback on a p of two blank children, whose flattened text is two
\* spaces.
C14_Witness ==
    /\ IsSome(output)
    /\ Val(input).kids = <<Text(<<" ">>), El("I", <<Text(<<" ">>)>>)>>
    /\ Val(output).children = <<TextRun(<<" ", " ">>)>>

\* processHtmlElements --------------------------------------------------------

MaxTopLevel == 2

\* Top-level elements of a body: one of each kind processHtmlElements
\* tells apart, and elements of other tags with text, with white space
\* only and without text.
TopLevelKinds ==
    {El("P", <<Text(Hello)>>), El("P", <<>>), El("P", <<Text(<<" ", "a", " ">>)>>),
     El("P", <<Text(A), El("STRONG", <<Text(B)>>)>>),
     El("H1", <<Text(A)>>), El("H2", <<Text(A)>>), El("H3", <<Text(A)>>),
     El("H4", <<Text(A)>>), El("H5", <<Text(A)>>), El("H6", <<Text(A)>>),
     El("UL", <<El("LI", <<Text(A)>>), El("LI", <<Text(B)>>)>>),
     El("OL", <<El("LI", <<Text(A)>>), El("LI", <<Text(B)>>)>>),
     El("OL", <<>>),
     El("BLOCKQUOTE", <<Text(X)>>), El("PRE", <<Text(X)>>),
     TableOfRows(<<<<El("TD", <<Text(A)>>)>>>>), El("HR", <<>>),
     El("DIV", <<Text(X)>>), El("DIV", <<Text(<<" ">>)>>), El("DIV", <<>>),
     El("SECTION", <<Text(A), El("EM", <<Text(B)>>)>>)}

Bodies == SeqsUpTo(TopLevelKinds, MaxTopLevel)

CallProcessHtmlElements == Apply(processHtmlElements(Val(input)))

InitBody == InitFormat(Bodies)
SpecBody == InitBody /\ [][CallProcessHtmlElements]_vars

\* The element is a p whose only child is a text node that is not blank.
PlainTextParagraph(el) ==
    /\ el.tagName = "P"
    /\ Len(el.kids) = 1
    /\ el.kids[1].type = "text"
    /\ ~Blank(el.kids[1])

\* No styling flag of the run is set.
Unstyled(run) ==
    /\ run.bold = None /\ run.italics = None /\ run.underline = None
    /\ run.strike = None /\ run.font = None /\ run.size = None
    /\ run.color = None /\ run.shading = None

\* C15: a body that is one p whose only child is a non-blank text node
\* gives exactly one block, a Paragraph of exactly one run, whose text is
\* the text of that node and which has no styling flag set.
C15_PlainParagraph ==
    IsSome(output) =>
        LET body == Val(input)
            out == Val(output)
        IN  (Len(body) = 1 /\ PlainTextParagraph(body[1])) =>
                /\ Len(out) = 1
                /\ out[1].type = "Paragraph"
                /\ out[1].heading = None
                /\ Len(out[1].children) = 1
                /\ out[1].children[1].text = body[1].kids[1].text
                /\ Unstyled(out[1].children[1])

\* <p>Hello world</p> was formatted.
C15_Witness ==
    /\ IsSome(output)
    /\ Val(input) = <<El("P", <<Text(Hello)>>)>>
    /\ Val(output)[1].children[1].text = Hello

\* createDocxFromHtml: the assembled sections -------------------------------

AssembleInputs ==
    [body : Bodies, title : {DefaultTitle, <<"T">>},
     options : [includeMetadata : {None, Some(TRUE), Some(FALSE)},
                customFilename : {None}]]

CallAssemble ==
    Apply(SectionsOf(Val(input).body, Val(input).title, Val(input).options))

InitAssemble == InitFormat(AssembleInputs)
SpecAssemble == InitAssemble /\ [][CallAssemble]_vars

\* What a block is, read off the block itself.
IsTitleBlock(b) == b.type = "Paragraph" /\ b.heading = Some("TITLE")
FirstText(b) == b.children[1].text
IsTimestampLine(b) ==
    b.type = "Paragraph" /\ FirstText(b) # <<>> /\ Head(FirstText(b)) = "Exported: "
IsFormatLine(b) ==
    b.type = "Paragraph" /\ FirstText(b) = <<"Format: Microsoft Word Document">>
IsFooter(b) ==
    /\ b.type = "Paragraph" /\ FirstText(b) # <<>>
    /\ Head(FirstText(b)) = "Generated by BOFU Article Editor on "
    /\ b.alignment = Some("CENTER")
    /\ b.children[1].size = Some(FooterRunSize)

\* C16: without includeMetadata (false or absent) the block right after the
\* Title block is the first body block, or the footer when the body gives no
\* block; with includeMetadata exactly two blocks stand between the Title
\* block and the body, the export-timestamp line and then the format line.
C16_MetadataToggle ==
    IsSome(output) =>
        LET in == Val(input)
            out == Val(output)
            body == processHtmlElements(in.body)
            rest == IF body = <<>> THEN out[Len(out)] ELSE body[1]
        IN  /\ IsTitleBlock(out[1])
            /\ in.options.includeMetadata # Some(TRUE) =>
                  /\ out[2] = rest
                  /\ Len(out) = Len(body) + 2
            /\ in.options.includeMetadata = Some(TRUE) =>
                  /\ IsTimestampLine(out[2])
                  /\ IsFormatLine(out[3])
                  /\ out[4] = rest
                  /\ Len(out) = Len(body) + 4
            /\ IsFooter(out[Len(out)])

\* Sections with metadata over a body that starts with a heading.
C16_Witness ==
    /\ IsSome(output)
    /\ Val(input).options.includeMetadata = Some(TRUE)
    /\ Len(Val(input).body) = 2
    /\ Val(input).body[1] = El("H1", <<Text(A)>>)
    /\ Val(output)[4].heading = Some("HEADING_1")

\* The number of a heading level.
LevelNumber(level) ==
    CASE level = "HEADING_1" -> 1 [] level = "HEADING_2" -> 2
      [] level = "HEADING_3" -> 3 [] level = "HEADING_4" -> 4
      [] level = "HEADING_5" -> 5 [] level = "HEADING_6" -> 6

IsHeadingBlock(b) ==
    b.type = "Paragraph" /\ IsSome(b.heading) /\ Val(b.heading) # "TITLE"
RunSize(b) == Val(b.children[1].size)

\* C17: among the emitted blocks the font size of a heading is fixed by its
\* level and strictly decreases from Heading 1 to Heading 6, and the font
\* size of the emitted Title block is strictly larger than that of every
\* heading.
C17_TitleLargest ==
    IsSome(output) =>
        LET out == Val(output)
            headings == {i \in 1..Len(out) : IsHeadingBlock(out[i])}
        IN  /\ \A i, j \in headings :
                  /\ out[i].heading = out[j].heading => RunSize(out[i]) = RunSize(out[j])
                  /\ LevelNumber(Val(out[i].heading)) < LevelNumber(Val(out[j].heading))
                        => RunSize(out[i]) > RunSize(out[j])
            /\ \A i \in headings : RunSize(out[1]) > RunSize(out[i])

\* C17 without the Title block: the font size of a heading is fixed by its
\* level and strictly decreases from Heading 1 to Heading 6.
C17_HeadingsDecrease ==
    IsSome(output) =>
        LET out == Val(output)
            headings == {i \in 1..Len(out) : IsHeadingBlock(out[i])}
        IN  \A i, j \in headings :
                /\ out[i].heading = out[j].heading => RunSize(out[i]) = RunSize(out[j])
                /\ LevelNumber(Val(out[i].heading)) < LevelNumber(Val(out[j].heading))
                      => RunSize(out[i]) > RunSize(out[j])

\* The blocks of one top-level element on its own.
BlocksOfOne(el) == processHtmlElements(<<el>>)

\* The number of blocks of the first n elements of body, each on its own.
RECURSIVE BlocksBefore(_, _)
BlocksBefore(body, n) ==
    IF n = 0 THEN 0
    ELSE BlocksBefore(body, n - 1) + Len(BlocksOfOne(body[n]))

\* t is the end of s.
EndsWith(s, t) ==
    Len(t) <= Len(s) /\ SubSeq(s, Len(s) - Len(t) + 1, Len(s)) = t

\* C18: the blocks processHtmlElements returns are the blocks of each
\* top-level element, element after element in source order: the blocks of
\* an element follow all blocks of the elements before it, and the blocks
\* of a list are its li children in their order.
C18_SourceOrder ==
    IsSome(output) =>
        LET body == Val(input)
            out == Val(output)
        IN  /\ Len(out) = BlocksBefore(body, Len(body))
            /\ \A i \in 1..Len(body) :
                  LET own == BlocksOfOne(body[i])
                      from == BlocksBefore(body, i - 1)
                  IN  /\ SubSeq(out, from + 1, from + Len(own)) = own
                      /\ body[i].tagName \in {"UL", "OL"} =>
                            /\ Len(own) = Len(LiChildren(body[i]))
                            /\ \A k \in 1..Len(own) :
                                  EndsWith(FirstText(own[k]),
                                           <<" ">> \o TextContent(LiChildren(body[i])[k]))

\* A list of two items followed by a paragraph gave three blocks, the
\* paragraph last.
C18_Witness ==
    /\ IsSome(output)
    /\ Val(input) = <<El("UL", <<El("LI", <<Text(A)>>), El("LI", <<Text(B)>>)>>),
                      El("P", <<Text(Hello)>>)>>
    /\ Len(Val(output)) = 3
    /\ FirstText(Val(output)[3]) = Hello

\* C20: the assembled sections start with exactly one Title block, built
\* from the resolved title, and end with exactly one footer block, for
\* every body, the empty one included; there are 1 + (2 with
\* includeMetadata, else 0) + the number of body blocks + 1 of them.
C20_TitleAndFooter ==
    IsSome(output) =>
        LET in == Val(input)
            out == Val(output)
            n == Len(out)
        IN  /\ n = 1 + (IF in.options.includeMetadata = Some(TRUE) THEN 2 ELSE 0)
                     + Len(processHtmlElements(in.body)) + 1
            /\ IsTitleBlock(out[1])
            /\ out[1].children = <<[TextRun(in.title) EXCEPT !.bold = Some(TRUE),
                                                             !.size = Some(TitleRunSize)]>>
            /\ {i \in 1..n : IsTitleBlock(out[i])} = {1}
            /\ IsFooter(out[n])
            /\ {i \in 1..n : IsFooter(out[i])} = {n}

\* The sections of an empty body with metadata: title, two lines, footer.
C20_Witness ==
    /\ IsSome(output)
    /\ Val(input).body = <<>>
    /\ Val(input).options.includeMetadata = Some(TRUE)
    /\ Len(Val(output)) = 4

-----------------------------------------------------------------------------
(* Two export() calls in flight together                                   *)

Obj(editor, html, json, title, articleId) ==
    [kind |-> "object", editor |-> editor, html |-> html, json |-> json,
     title |-> title, articleId |-> articleId]

\* One content of each shape, with different titles and article ids.
ConcurrentContents ==
    {[kind |-> "string", str |-> HtmlHello] @@ NoFields,
     Obj(Some("Editor"), None, None, Some(<<"T">>), Some("article-1")),
     Obj(None, Some(HtmlHello), None, Some(<<>>), None),
     Obj(None, None, Some("jsonDoc"), Some(<<"J">>), Some("article-2")),
     NumberContent}

ConcurrentOptions ==
    {[includeMetadata |-> None, customFilename |-> None],
     [includeMetadata |-> Some(TRUE), customFilename |-> Some("custom.docx")]}

\* A caller invokes export(content, options) while the other call may be in
\* flight.
ExportConcurrent(c) ==
    /\ pc[c] = "idle"
    /\ \E cnt \in ConcurrentContents, opts \in ConcurrentOptions :
          /\ content' = [content EXCEPT ![c] = cnt]
          /\ options' = [options EXCEPT ![c] = opts]
    /\ pc' = [pc EXCEPT ![c] = "normalize"]
    /\ UNCHANGED <<htmlContent, articleTitle, tempEditor, document, docxBlob,
                   filename, promise, downloads, log, thrown, formatVars,
                   uiVars>>

\* The calls take their steps in any order: a call may be overtaken at
\* every statement, its await points included.
StepConcurrent(c) ==
    \/ ExportConcurrent(c)
    \/ UseString(c)
    \/ EditorGetHTML(c)
    \/ UseHtml(c)
    \/ NewEditor(c)
    \/ TempGetHTML(c)
    \/ Destroy(c)
    \/ Unsupported(c)
    \/ CreateDocument(c)
    \/ PackerToBlob(c)
    \/ GenerateFilename(c)
    \/ SaveAs(c)
    \/ ReturnSuccess(c)

NextConcurrent == \E c \in Calls : StepConcurrent(c)

InitConcurrent ==
    InitCalls(Calls) /\ input = None /\ output = None /\ UiUnmounted
SpecConcurrent == InitConcurrent /\ [][NextConcurrent]_vars

\* The steps call c ran are steps of a call running alone: it started with
\* the step of its content's shape, every step followed the one that
\* returned before it, and no step followed one that threw.
AloneLog(c) ==
    /\ Len(log[c]) > 0 => log[c][1].step = FirstStep(Shape(content[c]))
    /\ \A i \in 1..(Len(log[c]) - 1) :
          log[c][i].ok /\ log[c][i + 1].step = StepAfter(log[c][i].step)

\* What call c holds after the steps it ran when it runs alone, from its own
\* content and options, its own steps and what was thrown to it.
Alone(c) ==
    LET cnt == content[c]
        opts == options[c]
        title == IF \/ Returned(c, "html") \/ Returned(c, "editor.getHTML")
                    \/ Returned(c, "tempEditor.destroy")
                 THEN ResolveTitle(cnt) ELSE DefaultTitle
        html == IF Returned(c, "string") THEN Some(cnt.str)
                ELSE IF Returned(c, "html") THEN cnt.html
                ELSE IF Returned(c, "editor.getHTML") THEN Some(HtmlEditor)
                ELSE IF Returned(c, "tempEditor.getHTML") THEN Some(HtmlJson)
                ELSE None
        doc == IF Returned(c, "createDocument")
               THEN Some(NewDocument(Val(html), title, opts)) ELSE None
        blob == IF Returned(c, "Packer.toBlob") THEN Some(ToBlob(Val(doc)))
                ELSE None
        name == IF Returned(c, "generateFilename")
                THEN Some(generateFilename(title, "docx", opts.customFilename))
                ELSE None
    IN  [articleTitle |-> title,
         htmlContent |-> html,
         document |-> doc,
         docxBlob |-> blob,
         filename |-> name,
         tempEditor |-> IF Returned(c, "tempEditor.destroy") THEN "destroyed"
                        ELSE IF Returned(c, "new Editor") THEN "alive"
                        ELSE "none",
         downloads |-> IF Indexes(c, "saveAs") = {} THEN <<>>
                       ELSE <<[blob |-> blob, filename |-> name]>>,
         promise |-> IF IsSome(thrown[c])
                     THEN Resolved(FailureResult(c, Val(thrown[c])))
                     ELSE IF Returned(c, "createMetadata")
                     THEN Resolved(SuccessResult(Val(name), Val(blob),
                              createMetadata("docx", "", cnt.articleId, title)))
                     ELSE Pending]

\* What call c holds.
Held(c) ==
    [articleTitle |-> articleTitle[c],
     htmlContent |-> htmlContent[c],
     document |-> document[c],
     docxBlob |-> docxBlob[c],
     filename |-> filename[c],
     tempEditor |-> tempEditor[c],
     downloads |-> downloads[c],
     promise |-> promise[c]]

\* C19: no state is shared between export() calls: with two calls in flight
\* together and overtaking each other at any step, each call's result,
\* document, title, filename, temporary editor and saveAs invocation are
\* those of the same call running alone on the same content and options.
C19_CallsIndependent ==
    \A c \in Calls : AloneLog(c) /\ Held(c) = Alone(c)

\* Both calls are in flight with different titles and documents: call 1
\* waits for Packer.toBlob while call 2, invoked with another content, has
\* its artifact and is about to name it.
C19_Witness ==
    /\ pc[1] = "Packer.toBlob" /\ pc[2] = "generateFilename"
    /\ articleTitle[1] # articleTitle[2]
    /\ Val(document[1]) # Val(document[2])

-----------------------------------------------------------------------------
(* processHtmlElements: elements of other tags                             *)

BlockTags ==
    {"h1", "h2", "h3", "h4", "h5", "h6", "p", "ul", "ol", "blockquote", "pre",
     "table", "hr"}

\* The tag of the element is none of those processHtmlElements names.
OtherTag(el) == ToLowerCase(el.tagName) \notin BlockTags

\* C21 as stated: a top-level element of another tag gives one Paragraph,
\* built as for a p with the same children, when its flattened text is not
\* empty, white space only included, and no block when it is empty.
C21_OtherTagByText ==
    IsSome(output) =>
        LET body == Val(input)
            out == Val(output)
        IN  (Len(body) = 1 /\ OtherTag(body[1])) =>
                out = IF TextContent(body[1]) # <<>>
                      THEN <<createParagraph(El("P", body[1].kids))>>
                      ELSE <<>>

\* C21, amended: a top-level element of another tag gives one Paragraph,
\* built as for a p with the same children, when its flattened text is not
\* empty after trimming, and no block when the text is empty or white space
\* only.
C21_OtherTagByTrimmedText ==
    IsSome(output) =>
        LET body == Val(input)
            out == Val(output)
        IN  (Len(body) = 1 /\ OtherTag(body[1])) =>
                out = IF Trim(TextContent(body[1])) # <<>>
                      THEN <<createParagraph(El("P", body[1].kids))>>
                      ELSE <<>>

\* A div holding one space was processed and gave no block.
C21_Witness ==
    /\ input = Some(<<El("DIV", <<Text(<<" ">>)>>)>>)
    /\ output = Some(<<>>)

-----------------------------------------------------------------------------
(* processInlineElements                                                   *)

CallProcessInlineElements == Apply(processInlineElements(Val(input)))

SpecInline == InitParagraph /\ [][CallProcessInlineElements]_vars

\* The run carries the styling of tag and no other.
StyledAs(run, tag) ==
    /\ run.bold = (IF tag \in {"STRONG", "B"} THEN Some(TRUE) ELSE None)
    /\ run.italics = (IF tag \in {"EM", "I"} THEN Some(TRUE) ELSE None)
    /\ run.underline = (IF tag \in {"U", "A"} THEN Some(TRUE) ELSE None)
    /\ run.strike = (IF tag \in {"S", "STRIKE"} THEN Some(TRUE) ELSE None)
    /\ run.font = (IF tag = "CODE" THEN Some("Courier New") ELSE None)
    /\ run.size = (IF tag = "CODE" THEN Some(18) ELSE None)
    /\ run.shading = (IF tag = "CODE" THEN Some("f4f4f4") ELSE None)
    /\ run.color = (IF tag = "A" THEN Some("0066cc") ELSE None)

\* The runs are those of the contributing children, one each, in child
\* order: the child's untrimmed flattened text, styled by the child's tag.
RunsOfContributing(runs, kids, Contributes(_)) ==
    LET from == SelectSeq(kids, Contributes)
    IN  /\ Len(runs) = Len(from)
        /\ \A k \in 1..Len(from) :
              /\ runs[k].text = TextContent(from[k])
              /\ StyledAs(runs[k], from[k].tagName)

\* C22 as stated: one run per contributing child, where a text node
\* contributes iff it is not blank after trimming and an element child
\* contributes iff its flattened text is not empty.
C22_RunPerNonEmptyChild ==
    IsSome(output) =>
        RunsOfContributing(Val(output), Val(input).kids,
            LAMBDA n : IF n.type = "text" THEN ~Blank(n)
                       ELSE TextContent(n) # <<>>)

\* C22, amended: processInlineElements emits one run per contributing direct
\* child, in child order, and nothing else; a child, text node or element,
\* contributes iff its flattened text is not blank after trimming; the run
\* carries the untrimmed flattened text and only the child's own tag decides
\* the styling.
C22_RunPerNonBlankChild ==
    IsSome(output) =>
        RunsOfContributing(Val(output), Val(input).kids, LAMBDA n : ~Blank(n))

\* An element child holding one space was passed over and the text node
\* after it gave the only run.
C22_Witness ==
    /\ input = Some(El("P", <<El("I", <<Text(<<" ">>)>>), Text(A)>>))
    /\ IsSome(output) /\ Len(Val(output)) = 1

-----------------------------------------------------------------------------
(* ProductCreationModal: handleSubmit                                      *)

\* useAuth().user: nobody logged in, or a user.
Users == {None, Some("user-1")}

\* What can be typed into the name and description fields.
Names == {<<>>, <<" ">>, <<" ", "a">>}
Descriptions == {<<" ">>, <<"d">>}

NotLoggedInMessage == "You must be logged in to create a product."
NameRequiredMessage == "Product name is required."
CreateFailedMessage == "Failed to create product. Please try again."

\* A row of the products table; the id is absent from the insert payload.
ProductRow(id, name, description, userId, storeId) ==
    [id |-> id, name |-> name, description |-> description,
     user_id |-> userId, openai_vector_store_id |-> storeId]

\* {name: name.trim(), description: description.trim() || null, user_id}
InsertPayload(name, description, user) ==
    ProductRow(None, Trim(name),
               IF Trim(description) # <<>> THEN Some(Trim(description)) ELSE None,
               Val(user), None)

\* The row the insert returns for payload.
InsertedRow(payload) == [payload EXCEPT !.id = Some("product-1")]

\* The row the update returns.
UpdatedRow(row, vectorStoreId) ==
    [row EXCEPT !.openai_vector_store_id = Some(vectorStoreId)]

\* What an awaited supabase query resolves to: {data, error}.
QueryResult(data, error) == [data |-> data, error |-> error]

\* A call handleSubmit made to a collaborator, with the row it passed.
Effect(ev, product) == [ev |-> ev, product |-> product]

\* err.message || 'Failed to create product. Please try again.'
SubmitErrorMessage(err) ==
    IF IsSome(err.message) /\ Val(err.message) # ""
    THEN Val(err.message) ELSE CreateFailedMessage

\* handleSubmit without the finally block.
FinallyMissing(m) == [m EXCEPT !.pc = "idle"]

\* finally { setIsLoading(false) }: handleSubmit is over.
Finally(m) == [m EXCEPT !.pc = "idle", !.isLoading = FALSE]

\* The outer catch block, err caught.
Caught(m, err) ==
    [m EXCEPT !.error = Some(SubmitErrorMessage(err))]

\* handleSubmit made the call ev with product.
Did(m, ev, product) ==
    [m EXCEPT !.effects = Append(@, Effect(ev, product))]

InitModal ==
    /\ InitCalls({}) /\ input = None /\ output = None
    /\ card = Unmounted /\ autosave = Unmounted /\ picker = Unmounted
    /\ \E user \in Users :
          modal = [pc |-> "idle", user |-> user, name |-> <<>>,
                   description |-> <<" ">>, isLoading |-> FALSE,
                   error |-> None, newProduct |-> None,
                   updatedProduct |-> None, argument |-> None,
                   effects |-> <<>>]

\* onChange of the name field: setName(e.target.value)
SetName ==
    /\ \E name \in Names \ {modal.name} : modal' = [modal EXCEPT !.name = name]
    /\ UNCHANGED notModal

\* onChange of the description field: setDescription(e.target.value)
SetDescription ==
    /\ \E d \in Descriptions \ {modal.description} :
          modal' = [modal EXCEPT !.description = d]
    /\ UNCHANGED notModal

\* handleSubmit up to the first await: validation, then the insert is sent.
\* The submit button is disabled while isLoading.
HandleSubmit ==
    /\ modal.pc = "idle"
    /\ modal' =
         IF modal.user = None
         THEN [modal EXCEPT !.error = Some(NotLoggedInMessage)]
         ELSE IF Trim(modal.name) = <<>>
         THEN [modal EXCEPT !.error = Some(NameRequiredMessage)]
         ELSE [modal EXCEPT
                 !.pc = "insert", !.isLoading = TRUE, !.error = None,
                 !.newProduct = None, !.updatedProduct = None,
                 !.argument = None,
                 !.effects = <<Effect("insert",
                     Some(InsertPayload(modal.name, modal.description,
                                        modal.user)))>>]
    /\ UNCHANGED notModal

\* await supabase.from('products').insert(...).select().single() settles.
InsertSettles ==
    /\ modal.pc = "insert"
    /\ LET row == InsertedRow(Val(modal.effects[1].product))
       IN  \/ \E e \in Thrown : modal' = Finally(Caught(modal, e))
           \/ \E r \in {QueryResult(Some(row), None), QueryResult(None, None)}
                     \cup {QueryResult(None, Some(e)) : e \in Thrown} :
                 modal' =
                   IF IsSome(r.error) THEN Finally(Caught(modal, Val(r.error)))
                   ELSE IF IsSome(r.data)
                   THEN [modal EXCEPT !.pc = "createStore", !.newProduct = r.data]
                   ELSE Finally(modal)
    /\ UNCHANGED notModal

\* new OpenAIVectorStoreService(), await createEmptyVectorStore(...), and the
\* update that is sent when it resolved.
CreateVectorStore ==
    /\ modal.pc = "createStore"
    /\ \/ modal' = [modal EXCEPT !.pc = "innerCatch"]
       \/ modal' = [Did(modal, "createEmptyVectorStore", modal.newProduct)
                       EXCEPT !.pc = "innerCatch"]
       \/ modal' = [Did(Did(modal, "createEmptyVectorStore", modal.newProduct),
                        "update",
                        Some(UpdatedRow(Val(modal.newProduct), "vs-1")))
                       EXCEPT !.pc = "update"]
    /\ UNCHANGED notModal

\* await supabase.from('products').update(...).eq(...).select().single()
\* settles.
UpdateSettles ==
    /\ modal.pc = "update"
    /\ LET updated == UpdatedRow(Val(modal.newProduct), "vs-1")
       IN  \/ modal' = [modal EXCEPT !.pc = "innerCatch"]
           \/ \E r \in {QueryResult(Some(updated), None), QueryResult(None, None),
                        QueryResult(None, Some([isError |-> FALSE,
                                                message |-> Some("boom")]))} :
                 modal' =
                   IF IsSome(r.error)
                   THEN [Did(modal, "toast.error", None)
                           EXCEPT !.pc = "notify", !.argument = modal.newProduct]
                   ELSE IF IsSome(r.data)
                   THEN [modal EXCEPT !.pc = "notify", !.updatedProduct = r.data,
                                      !.argument = r.data]
                   ELSE [modal EXCEPT !.pc = "close"]
    /\ UNCHANGED notModal

\* onProductCreated(...) inside the inner try block.
Notify ==
    /\ modal.pc = "notify"
    /\ \E next \in {"close", "innerCatch"} :
          modal' = [Did(modal, "onProductCreated", modal.argument)
                      EXCEPT !.pc = next]
    /\ UNCHANGED notModal

\* catch (vsError): toast.error(...); onProductCreated(newProduct)
InnerCatch ==
    /\ modal.pc = "innerCatch"
    /\ LET m == Did(Did(modal, "toast.error", None),
                    "onProductCreated", modal.newProduct)
       IN  \/ modal' = [m EXCEPT !.pc = "close"]
           \/ \E e \in Thrown : modal' = Finally(Caught(m, e))
    /\ UNCHANGED notModal

\* onClose(), then the finally block.
Close ==
    /\ modal.pc = "close"
    /\ LET m == Did(modal, "onClose", None)
       IN  \/ modal' = Finally(m)
           \/ \E e \in Thrown : modal' = Finally(Caught(m, e))
    /\ UNCHANGED notModal

NextModal ==
    \/ SetName
    \/ SetDescription
    \/ HandleSubmit
    \/ InsertSettles
    \/ CreateVectorStore
    \/ UpdateSettles
    \/ Notify
    \/ InnerCatch
    \/ Close

SpecModal == InitModal /\ [][NextModal]_vars

\* The calls of the last handleSubmit to the collaborator ev.
EffectsOf(ev) == SelectSeq(modal.effects, LAMBDA e : e.ev = ev)

\* The last handleSubmit is over.
SubmitOver == modal.pc = "idle"

\* C23: whenever the insert gave a row, handleSubmit calls onProductCreated
\* exactly once, with the updated row when the linking update gave one and
\* with the inserted row otherwise, and calls onClose after it, whatever
\* the vector store creation, the linking update and the callback do.
C23_CreatedOnceThenClosed ==
    (SubmitOver /\ IsSome(modal.newProduct)) =>
        /\ Len(EffectsOf("onProductCreated")) = 1
        /\ EffectsOf("onProductCreated")[1].product =
              (IF IsSome(modal.updatedProduct) THEN modal.updatedProduct
               ELSE modal.newProduct)
        /\ Len(EffectsOf("onClose")) = 1
        /\ modal.effects[Len(modal.effects)].ev = "onClose"

\* Validation fails in this state: nobody is logged in or the trimmed name
\* is empty, and no handleSubmit is in flight.
Invalid ==
    /\ modal.pc = "idle"
    /\ modal.user = None \/ Trim(modal.name) = <<>>

\* C24: with nobody logged in or an empty trimmed name, handleSubmit sends
\* no insert, creates no vector store, calls neither onProductCreated nor
\* onClose and changes only the error message (the only other steps are
\* edits of the name and description fields); and whenever a handleSubmit
\* that got past validation is over, isLoading is false.
C24_ValidationAndLoading ==
    [][/\ Invalid =>
            \/ modal' = [modal EXCEPT !.error =
                            Some(IF modal.user = None THEN NotLoggedInMessage
                                 ELSE NameRequiredMessage)]
            \/ \E name \in Names : modal' = [modal EXCEPT !.name = name]
            \/ \E d \in Descriptions : modal' = [modal EXCEPT !.description = d]
       /\ (modal.pc # "idle" /\ modal'.pc = "idle") => ~modal'.isLoading]_vars

\* A handleSubmit that got past validation failed at the insert and is
\* over; the name was then blanked and the next handleSubmit refused it.
C24_Witness ==
    /\ modal.error = Some(NameRequiredMessage)
    /\ Len(modal.effects) = 1 /\ modal.effects[1].ev = "insert"
    /\ modal.pc = "idle" /\ ~modal.isLoading

-----------------------------------------------------------------------------
(* ProductCardContent: the product prop, editableProduct and the           *)
(* isUpdatingCompetitors flag                                              *)

\* A competitors object; each of the three lists may be absent.
Competitors(direct, niche, broader) ==
    [direct_competitors |-> direct, niche_competitors |-> niche,
     broader_competitors |-> broader]

\* Competitors objects with 0, 1 and 2 competitors in all.
CompetitorValues ==
    {Competitors(Some(<<>>), None, None),
     Competitors(None, Some(<<"c2">>), None),
     Competitors(Some(<<"c1">>), None, Some(<<"c3">>))}

\* list?.length || 0
LengthOrZero(list) == IF IsSome(list) THEN Len(Val(list)) ELSE 0

\* The total the sync effect computes for a competitors object.
Total(competitors) ==
    LengthOrZero(competitors.direct_competitors)
    + LengthOrZero(competitors.niche_competitors)
    + LengthOrZero(competitors.broader_competitors)

\* A ProductAnalysis: one plain field, the framework, the competitors.
ProductAnalysis(description, framework, competitors) ==
    [description |-> description, framework |-> framework,
     competitors |-> competitors]

\* Values of the product prop.
Products ==
    {ProductAnalysis(d, f, c) :
        d \in {"d1", "d2"}, f \in {None, Some("f1")},
        c \in {None} \cup {Some(v) : v \in CompetitorValues}}

\* Frameworks the framework selector can set locally: a choice, or none.
LocalFrameworks == {None, Some("f2")}

\* onUpdateCompetitors calls followed.
MaxUpdates == 2

\* {...product}, with the local framework kept when the prop has none.
MergedProduct(prev, product) ==
    IF IsSome(prev.framework) /\ ~IsSome(product.framework)
    THEN [product EXCEPT !.framework = prev.framework]
    ELSE product

\* Both competitors objects are there and have the same total, not 0.
SameTotal(current, new) ==
    /\ IsSome(current) /\ IsSome(new)
    /\ Total(Val(current)) > 0 /\ Total(Val(new)) > 0
    /\ Total(Val(current)) = Total(Val(new))

\* What the sync effect logs on the path it takes.
LogCleared == "Parent product now has same competitors - clearing flag and allowing sync"
LogWaiting == "Still waiting for parent to reflect competitors, skipping sync"
LogUpdating == "Skipping product update due to competitor update in progress"
LogUnchanged == "Skipping update - competitors data appears unchanged"
LogReplaced == "Updating editableProduct from product prop"

\* The sync effect without the test of the flag.
SyncEffectIgnoringFlag(flag, editableProduct, product) ==
    LET current == editableProduct.competitors
        new == product.competitors
    IN  IF SameTotal(current, new)
        THEN [isUpdatingCompetitors |-> FALSE,
              editableProduct |-> editableProduct, log |-> LogUnchanged]
        ELSE [isUpdatingCompetitors |-> flag,
              editableProduct |-> MergedProduct(editableProduct, product),
              log |-> LogReplaced]

\* The effect on [product]: the flag and editableProduct after it ran with
\* the flag, editableProduct and the new product prop, and its last log.
SyncEffect(flag, editableProduct, product) ==
    LET current == editableProduct.competitors
        new == product.competitors
        same == SameTotal(current, new)
        waiting == /\ flag /\ IsSome(current) /\ IsSome(new) /\ ~same
                   /\ Total(Val(current)) > 0 /\ Total(Val(new)) = 0
        cleared == flag /\ same
        flagAfter == flag /\ ~cleared
    IN  IF waiting \/ flagAfter \/ same
        THEN [isUpdatingCompetitors |-> flagAfter,
              editableProduct |-> editableProduct,
              log |-> IF waiting THEN LogWaiting
                      ELSE IF flagAfter THEN LogUpdating
                      ELSE LogUnchanged]
        ELSE [isUpdatingCompetitors |-> flagAfter,
              editableProduct |-> MergedProduct(editableProduct, product),
              log |-> LogReplaced]

InitCard ==
    /\ InitCalls({}) /\ input = None /\ output = None
    /\ modal = Unmounted /\ autosave = Unmounted /\ picker = Unmounted
    /\ \E product \in Products, handler \in BOOLEAN :
          card = [product |-> product, editableProduct |-> product,
                  isUpdatingCompetitors |-> FALSE,
                  onUpdateSection |-> handler, pending |-> 0, timers |-> 0,
                  updates |-> 0, log |-> "mounted"]

\* The parent renders the card with another product; the effect runs.
ProductChanges ==
    /\ \E product \in Products \ {card.product} :
          LET after == SyncEffect(card.isUpdatingCompetitors,
                                  card.editableProduct, product)
          IN  card' = [card EXCEPT
                         !.product = product,
                         !.isUpdatingCompetitors = after.isUpdatingCompetitors,
                         !.editableProduct = after.editableProduct,
                         !.log = after.log]
    /\ UNCHANGED notCard

\* updateField('framework', ...) from the framework selector.
UpdateFramework ==
    /\ \E f \in LocalFrameworks \ {card.editableProduct.framework} :
          card' = [card EXCEPT !.editableProduct.framework = f]
    /\ UNCHANGED notCard

\* onUpdateCompetitors(competitors)
OnUpdateCompetitors ==
    /\ card.updates < MaxUpdates
    /\ \E competitors \in CompetitorValues :
          card' = [card EXCEPT
                     !.updates = @ + 1,
                     !.isUpdatingCompetitors = TRUE,
                     !.editableProduct.competitors = Some(competitors),
                     !.pending = IF card.onUpdateSection THEN @ + 1 ELSE @,
                     !.timers = IF card.onUpdateSection THEN @ ELSE @ + 1]
    /\ UNCHANGED notCard

\* onUpdateSection(...) resolved: the flag is left as it is.
UpdateResolves ==
    /\ card.pending > 0
    /\ card' = [card EXCEPT !.pending = @ - 1]
    /\ UNCHANGED notCard

\* onUpdateSection(...) rejected: a timer is set.
UpdateRejects ==
    /\ card.pending > 0
    /\ card' = [card EXCEPT !.pending = @ - 1, !.timers = @ + 1]
    /\ UNCHANGED notCard

\* A timer set on the error path or the no-handler path fires.
TimerFires ==
    /\ card.timers > 0
    /\ card' = [card EXCEPT !.timers = @ - 1, !.isUpdatingCompetitors = FALSE]
    /\ UNCHANGED notCard

NextCard ==
    \/ ProductChanges
    \/ UpdateFramework
    \/ OnUpdateCompetitors
    \/ UpdateResolves
    \/ UpdateRejects
    \/ TimerFires

SpecCard == InitCard /\ [][NextCard]_vars

\* Promises settle, timers fire and the parent keeps rendering.
SpecCardFair ==
    /\ SpecCard
    /\ WF_vars(UpdateResolves \/ UpdateRejects)
    /\ WF_vars(TimerFires)
    /\ WF_vars(ProductChanges)

\* C25: every time onUpdateCompetitors has set isUpdatingCompetitors, the
\* flag is cleared again later, by the sync effect or by a timer, whatever
\* the parent does: its onUpdateSection resolving and its product prop then
\* carrying another number of competitors, or none, included.
C25_FlagEventuallyCleared ==
    card.isUpdatingCompetitors ~> ~card.isUpdatingCompetitors

\* C26: whenever the product prop changes while isUpdatingCompetitors is
\* false, editableProduct afterwards has the prop's value in every field,
\* except that a locally set framework is kept when the prop has none;
\* also when the old and the new product have the same total of competitors,
\* not 0, and differ elsewhere.
C26_SyncWhenIdle ==
    [][(card'.product # card.product /\ ~card.isUpdatingCompetitors) =>
          /\ card'.editableProduct.description = card'.product.description
          /\ card'.editableProduct.competitors = card'.product.competitors
          /\ card'.editableProduct.framework =
                (IF IsSome(card.editableProduct.framework)
                    /\ ~IsSome(card'.product.framework)
                 THEN card.editableProduct.framework
                 ELSE card'.product.framework)]_vars

\* C27: while isUpdatingCompetitors is set, a change of the product prop
\* leaves editableProduct.competitors as it is, or replaces it by the prop's
\* competitors when those have the same total, not 0; it never puts fewer
\* competitors in their place.
C27_CompetitorsKeptWhileUpdating ==
    [][(card'.product # card.product /\ card.isUpdatingCompetitors) =>
          LET old == card.editableProduct.competitors
              new == card'.editableProduct.competitors
          IN  \/ new = old
              \/ /\ new = card'.product.competitors
                 /\ SameTotal(old, card'.product.competitors)]_vars

\* The flag is set, the effect last ran on a prop change and skipped it for
\* the update in progress, and the prop has fewer competitors than the
\* local copy.
C27_Witness ==
    /\ card.isUpdatingCompetitors
    /\ card.log = LogUpdating
    /\ IsSome(card.product.competitors)
    /\ IsSome(card.editableProduct.competitors)
    /\ 0 < Total(Val(card.product.competitors))
    /\ Total(Val(card.product.competitors))
          < Total(Val(card.editableProduct.competitors))

-----------------------------------------------------------------------------
(* ProductCardContent.handleAutoSave                                       *)

\* Values of a section: undefined, a string, an array of strings.
Undefined == [kind |-> "undefined", str |-> "", items |-> <<>>]
Str(v) == [kind |-> "string", str |-> v, items |-> <<>>]
Arr(items) == [kind |-> "array", str |-> "", items |-> items]

SectionValues ==
    {Str("a"), Str("b"), Arr(<<"x">>), Arr(<<"y">>), Arr(<<"x", "y">>)}

\* The sections of a ProductAnalysis the model follows.
SectionKeys == {"description", "features"}

\* An object: its own keys in insertion order, each with its value.
Entry(key, value) == [key |-> key, value |-> value]
Keys(obj) == [i \in 1..Len(obj) |-> obj[i].key]
HasKey(obj, key) == \E i \in 1..Len(obj) : obj[i].key = key

\* obj[key]: undefined for a key the object does not have.
Get(obj, key) ==
    IF HasKey(obj, key)
    THEN obj[CHOOSE i \in 1..Len(obj) : obj[i].key = key].value
    ELSE Undefined

\* Objects over the sections, no key twice, valued from values.
Objects(values) ==
    {obj \in SeqsUpTo({Entry(k, v) : k \in SectionKeys, v \in values},
                      Cardinality(SectionKeys)) :
        \A i, j \in 1..Len(obj) : obj[i].key = obj[j].key => i = j}

\* The product prop: a key with the value undefined reads like a missing
\* key, so the prop's sections all have values, in one order.
PropObjects ==
    {obj \in Objects(SectionValues) :
        Len(obj) = 2 => obj[1].key = "description"}

\* updatedProduct: any order, values undefined included.
UpdatedObjects == Objects(SectionValues \cup {Undefined})

\* JSON.stringify(value) of a value that is not an array; 'undefined' for
\* undefined.
Stringify(value) ==
    IF value.kind = "undefined" THEN <<"undefined">>
    ELSE <<"\"", value.str, "\"">>

\* The comparison handleAutoSave makes of a section's two values.
SectionChanged(originalValue, newValue) ==
    IF newValue.kind = "array" /\ originalValue.kind = "array"
    THEN \/ Len(newValue.items) # Len(originalValue.items)
         \/ \E i \in 1..Len(newValue.items) :
               newValue.items[i] # originalValue.items[i]
    ELSE IF newValue.kind = "array" \/ originalValue.kind = "array"
    THEN TRUE
    ELSE Stringify(originalValue) # Stringify(newValue)

\* changes: Object.keys(updatedProduct).forEach(...) collects the changed
\* sections, each with its new value.
RECURSIVE ChangesFrom(_, _)
ChangesFrom(product, entries) ==
    IF entries = <<>> THEN <<>>
    ELSE LET e == Head(entries)
         IN  (IF SectionChanged(Get(product, e.key), e.value)
              THEN <<Entry(e.key, e.value)>> ELSE <<>>)
             \o ChangesFrom(product, Tail(entries))

Changes(product, updatedProduct) == ChangesFrom(product, updatedProduct)

InitAutosave ==
    /\ InitCalls({}) /\ input = None /\ output = None
    /\ modal = Unmounted /\ card = Unmounted /\ picker = Unmounted
    /\ \E product \in PropObjects, onUpdateSection \in BOOLEAN,
          onSave \in BOOLEAN :
          autosave = [pc |-> "idle", product |-> product,
                      onUpdateSection |-> onUpdateSection, onSave |-> onSave,
                      updatedProduct |-> <<>>, changes |-> <<>>,
                      sent |-> <<>>, saved |-> 0, settled |-> <<>>,
                      result |-> None]

\* handleAutoSave(updatedProduct) up to its first await, or to its return
\* when there is nothing to await.
HandleAutoSave ==
    /\ autosave.pc = "idle"
    /\ \E updatedProduct \in UpdatedObjects :
          LET changes == Changes(autosave.product, updatedProduct)
              called == [autosave EXCEPT !.updatedProduct = updatedProduct]
          IN  autosave' =
                IF autosave.onUpdateSection
                THEN IF changes = <<>>
                     THEN [called EXCEPT !.pc = "done", !.result = Some(TRUE)]
                     ELSE [called EXCEPT !.pc = "onUpdateSection",
                                         !.changes = changes,
                                         !.sent = <<changes[1]>>]
                ELSE IF autosave.onSave
                THEN [called EXCEPT !.pc = "onSave", !.saved = 1]
                ELSE [called EXCEPT !.pc = "done", !.result = Some(TRUE)]
    /\ UNCHANGED notAutosave

\* await onUpdateSection(index ?? 0, change.section, change.value) settles:
\* the next change is sent, or the loop is over, or the catch block returns
\* false.
SectionSettles ==
    /\ autosave.pc = "onUpdateSection"
    /\ LET n == Len(autosave.sent)
       IN  \/ autosave' =
                IF n < Len(autosave.changes)
                THEN [autosave EXCEPT
                        !.settled = Append(@, TRUE),
                        !.sent = Append(@, autosave.changes[n + 1])]
                ELSE [autosave EXCEPT
                        !.settled = Append(@, TRUE),
                        !.pc = "done", !.result = Some(TRUE)]
           \/ autosave' = [autosave EXCEPT
                             !.settled = Append(@, FALSE),
                             !.pc = "done", !.result = Some(FALSE)]
    /\ UNCHANGED notAutosave

\* await onSave(updatedProduct) settles.
SaveSettles ==
    /\ autosave.pc = "onSave"
    /\ \E ok \in BOOLEAN :
          autosave' = [autosave EXCEPT !.settled = Append(@, ok),
                                       !.pc = "done", !.result = Some(ok)]
    /\ UNCHANGED notAutosave

NextAutosave ==
    \/ HandleAutoSave
    \/ SectionSettles
    \/ SaveSettles

SpecAutosave == InitAutosave /\ [][NextAutosave]_vars

\* The sections whose value is not the same in the prop and in the updated
\* product, a section one of the two does not have included.
DifferingSections ==
    {k \in SectionKeys :
        Get(autosave.product, k) # Get(autosave.updatedProduct, k)}

\* The sections sent, in the order sent.
SentSections == Keys(autosave.sent)

\* seq lists elements of the object's keys in the object's key order.
InKeyOrder(seq, obj) ==
    \A i, j \in 1..Len(seq) :
        i < j => \E a, b \in 1..Len(obj) :
                    a < b /\ obj[a].key = seq[i] /\ obj[b].key = seq[j]

\* C28: with onUpdateSection provided, a handleAutoSave that returned has
\* called it once for each section whose value differs between the product
\* prop and the updated product (a section the prop has and the updated
\* product lacks included) and for no other, one call at a time in key
\* order; it returned true iff every call resolved, and after a call that
\* rejected it sent nothing more and returned false.
C28_SendsDifferingSections ==
    (autosave.onUpdateSection /\ IsSome(autosave.result)) =>
        /\ \A i, j \in 1..Len(SentSections) :
              SentSections[i] = SentSections[j] => i = j
        /\ Len(autosave.settled) = Len(autosave.sent)
        /\ Val(autosave.result) =
              (\A i \in 1..Len(autosave.settled) : autosave.settled[i])
        /\ \A i \in 1..(Len(autosave.settled) - 1) : autosave.settled[i]
        /\ {SentSections[i] : i \in 1..Len(SentSections)} \subseteq DifferingSections
        /\ Val(autosave.result) =>
              {SentSections[i] : i \in 1..Len(SentSections)} = DifferingSections
        /\ InKeyOrder(SentSections, autosave.updatedProduct)

\* The same with the sections taken from the keys of the updated product
\* only: what handleAutoSave does.
C28_SendsChangedKeysOfUpdated ==
    (autosave.onUpdateSection /\ IsSome(autosave.result)) =>
        /\ \A i, j \in 1..Len(SentSections) :
              SentSections[i] = SentSections[j] => i = j
        /\ Len(autosave.settled) = Len(autosave.sent)
        /\ Val(autosave.result) =
              (\A i \in 1..Len(autosave.settled) : autosave.settled[i])
        /\ \A i \in 1..(Len(autosave.settled) - 1) : autosave.settled[i]
        /\ Val(autosave.result) =>
              {SentSections[i] : i \in 1..Len(SentSections)} =
                  {k \in DifferingSections : HasKey(autosave.updatedProduct, k)}
        /\ InKeyOrder(SentSections, autosave.updatedProduct)

-----------------------------------------------------------------------------
(* SpecialCharacters: the character picker                                 *)

\* The characters of the static categories the model follows, by number.
Character(n) ==
    [symbol |-> <<"#">> \o NumberToString(n),
     name |-> CASE n = 1 -> <<"A", "b">>
                [] n = 11 -> <<"b">>
                [] OTHER -> <<"c">> \o NumberToString(n),
     unicode |-> <<"U", "+">> \o NumberToString(n)]

\* The first n characters.
Characters(n) == [i \in 1..n |-> Character(i)]

\* .slice(0, 10): the length recentlyUsed is cut to.
RecentLimit == 10

\* cols: the step of ArrowDown and ArrowUp.
Cols == 8

\* insertCharacter calls followed.
MaxInserts == 2

CategoryIds == {"recently-used", "favorites", "symbols"}

\* What can be typed into the search field.
SearchTerms == {<<>>, <<"B">>, <<"z">>}

\* String.prototype.toLowerCase on the letters the model uses.
LowerCase(text) ==
    [i \in 1..Len(text) |->
        CASE text[i] = "A" -> "a" [] text[i] = "B" -> "b"
          [] text[i] = "U" -> "u" [] OTHER -> text[i]]

\* String.prototype.includes
Includes(text, term) ==
    \E i \in 0..(Len(text) - Len(term)) :
        SubSeq(text, i + 1, i + Len(term)) = term

Min(a, b) == IF a < b THEN a ELSE b
Max(a, b) == IF a > b THEN a ELSE b

\* array.filter(keep)
Filter(list, Keep(_)) == SelectSeq(list, Keep)

\* [character, ...prev.filter(other symbols)] not cut to the limit.
AddToRecentlyUsedUncut(prev, character) ==
    <<character>> \o Filter(prev, LAMBDA ch : ch.symbol # character.symbol)

\* The updater of addToRecentlyUsed.
AddToRecentlyUsed(prev, character) ==
    LET filtered == Filter(prev, LAMBDA ch : ch.symbol # character.symbol)
        list == <<character>> \o filtered
    IN  SubSeq(list, 1, Min(Len(list), RecentLimit))

\* The updater of toggleFavorite.
ToggleFavorite(prev, character) ==
    IF \E i \in 1..Len(prev) : prev[i].symbol = character.symbol
    THEN Filter(prev, LAMBDA ch : ch.symbol # character.symbol)
    ELSE Append(prev, character)

\* getFilteredCharacters()
GetFilteredCharacters(p) ==
    IF p.searchTerm # <<>>
    THEN LET term == LowerCase(p.searchTerm)
         IN  Filter(p.recentlyUsed \o p.favorites \o p.symbols,
                    LAMBDA ch : \/ Includes(LowerCase(ch.name), term)
                                \/ Includes(ch.symbol, p.searchTerm)
                                \/ Includes(LowerCase(ch.unicode), term))
    ELSE CASE p.selectedCategory = "recently-used" -> p.recentlyUsed
           [] p.selectedCategory = "favorites" -> p.favorites
           [] p.selectedCategory = "symbols" -> p.symbols

\* insertCharacter(character): the editor gets the symbol, the character
\* goes to the front of recentlyUsed, onClose closes the picker.  The editor
\* prop is an Editor, never null, so the early return is not taken.
InsertCharacter(p, character) ==
    [p EXCEPT !.inserted = Append(@, character.symbol),
              !.recentlyUsed = AddToRecentlyUsed(@, character),
              !.isOpen = FALSE]

\* toggleFavorite(character)
Toggled(p, character) ==
    [p EXCEPT !.favorites = ToggleFavorite(@, character),
              !.toggled = IF character.symbol \in @
                          THEN @ \ {character.symbol}
                          ELSE @ \cup {character.symbol}]

\* The picker with symbols as its static characters, after the first
\* `used` of them were inserted one after the other.
PickerWith(symbols, used, searchTerm) ==
    [isOpen |-> TRUE, searchTerm |-> searchTerm,
     selectedCategory |-> "recently-used", symbols |-> symbols,
     recentlyUsed |-> [i \in 1..used |-> symbols[used + 1 - i]],
     favorites |-> <<>>, focusedIndex |-> -1,
     inserted |-> [i \in 1..used |-> symbols[i].symbol],
     toggled |-> {}, before |-> used]

InitPicker ==
    /\ InitCalls({}) /\ input = None /\ output = None
    /\ modal = Unmounted /\ card = Unmounted /\ autosave = Unmounted
    /\ picker = PickerWith(Characters(3), 0, <<>>)

\* The parent opens the picker again.
Open ==
    /\ ~picker.isOpen
    /\ picker' = [picker EXCEPT !.isOpen = TRUE]
    /\ UNCHANGED notPicker

\* onChange of the search field, and the effect on [selectedCategory,
\* searchTerm].
SetSearchTerm ==
    /\ picker.isOpen
    /\ \E term \in SearchTerms \ {picker.searchTerm} :
          picker' = [picker EXCEPT !.searchTerm = term, !.focusedIndex = -1]
    /\ UNCHANGED notPicker

\* onClick of a category button, and the effect on [selectedCategory,
\* searchTerm].
SetSelectedCategory ==
    /\ picker.isOpen
    /\ \E id \in CategoryIds \ {picker.selectedCategory} :
          picker' = [picker EXCEPT !.selectedCategory = id, !.focusedIndex = -1]
    /\ UNCHANGED notPicker

\* handleKeyDown: Escape
KeyEscape ==
    /\ picker.isOpen
    /\ picker' = [picker EXCEPT !.isOpen = FALSE]
    /\ UNCHANGED notPicker

\* handleKeyDown: ArrowRight, ArrowLeft, ArrowDown, ArrowUp
KeyArrow ==
    /\ picker.isOpen
    /\ LET length == Len(GetFilteredCharacters(picker))
           prev == picker.focusedIndex
       IN  \E key \in {"ArrowRight", "ArrowLeft", "ArrowDown", "ArrowUp"} :
              picker' = [picker EXCEPT !.focusedIndex =
                  CASE key = "ArrowRight" -> Min(prev + 1, length - 1)
                    [] key = "ArrowLeft" -> Max(prev - 1, 0)
                    [] key = "ArrowDown" -> Min(prev + Cols, length - 1)
                    [] key = "ArrowUp" -> Max(prev - Cols, 0)]
    /\ UNCHANGED notPicker

\* focusedIndex >= 0 && focusedIndex < characters.length
FocusInList(p) ==
    p.focusedIndex >= 0 /\ p.focusedIndex < Len(GetFilteredCharacters(p))

\* handleKeyDown: Enter
KeyEnter ==
    /\ picker.isOpen
    /\ Len(picker.inserted) < picker.before + MaxInserts
    /\ picker' =
         IF FocusInList(picker)
         THEN InsertCharacter(picker,
                  GetFilteredCharacters(picker)[picker.focusedIndex + 1])
         ELSE picker
    /\ UNCHANGED notPicker

\* handleKeyDown: f with Ctrl or Cmd
KeyFavorite ==
    /\ picker.isOpen
    /\ picker' =
         IF FocusInList(picker)
         THEN Toggled(picker,
                  GetFilteredCharacters(picker)[picker.focusedIndex + 1])
         ELSE picker
    /\ UNCHANGED notPicker

\* onClick of a character of the grid
ClickCharacter ==
    /\ picker.isOpen
    /\ Len(picker.inserted) < picker.before + MaxInserts
    /\ \E i \in 1..Len(GetFilteredCharacters(picker)) :
          picker' = InsertCharacter(picker, GetFilteredCharacters(picker)[i])
    /\ UNCHANGED notPicker

\* onClick of the favorite button of a character of the grid
ClickFavorite ==
    /\ picker.isOpen
    /\ \E i \in 1..Len(GetFilteredCharacters(picker)) :
          picker' = Toggled(picker, GetFilteredCharacters(picker)[i])
    /\ UNCHANGED notPicker

NextPicker ==
    \/ Open
    \/ SetSearchTerm
    \/ SetSelectedCategory
    \/ KeyEscape
    \/ KeyArrow
    \/ KeyEnter
    \/ KeyFavorite
    \/ ClickCharacter
    \/ ClickFavorite

SpecPicker == InitPicker /\ [][NextPicker]_vars

\* The picker after the first `used` of twelve characters were inserted,
\* with a search that shows the first and the eleventh.
InitRecent ==
    /\ InitCalls({}) /\ input = None /\ output = None
    /\ modal = Unmounted /\ card = Unmounted /\ autosave = Unmounted
    /\ \E used \in 0..RecentLimit :
          picker = PickerWith(Characters(12), used, <<"B">>)

NextRecent ==
    \/ Open
    \/ ClickCharacter
    \/ ClickFavorite

SpecRecent == InitRecent /\ [][NextRecent]_vars

\* The symbols of the characters of a list.
Symbols(list) == [i \in 1..Len(list) |-> list[i].symbol]
SymbolSet(list) == {list[i].symbol : i \in 1..Len(list)}

NoSymbolTwice(list) ==
    \A i, j \in 1..Len(list) : list[i].symbol = list[j].symbol => i = j

\* focusedIndex is -1 or an index of the filtered list.
FocusValid ==
    \/ picker.focusedIndex = -1
    \/ /\ 0 <= picker.focusedIndex
       /\ picker.focusedIndex < Len(GetFilteredCharacters(picker))

\* C29: after any key events, category changes and search changes,
\* focusedIndex is -1 or a valid index of the filtered character list, the
\* empty list included; and Enter and Ctrl/Cmd+F insert and toggle only
\* characters of the filtered list.
C29_FocusInFilteredList ==
    /\ []FocusValid
    /\ [][/\ picker'.inserted # picker.inserted =>
                picker'.inserted[Len(picker'.inserted)]
                    \in SymbolSet(GetFilteredCharacters(picker))
          /\ picker'.toggled # picker.toggled =>
                (picker'.toggled \ picker.toggled)
                \cup (picker.toggled \ picker'.toggled)
                    \subseteq SymbolSet(GetFilteredCharacters(picker))]_vars

\* The symbols of history, the last one first, each at its last place only.
RECURSIVE MostRecentFirst(_)
MostRecentFirst(history) ==
    IF history = <<>> THEN <<>>
    ELSE LET last == history[Len(history)]
         IN  <<last>> \o SelectSeq(MostRecentFirst(SubSeq(history, 1, Len(history) - 1)),
                                   LAMBDA sym : sym # last)

====
